---- MODULE Spec2Model ----
(***************************************************************************)
(* Model of the canvas interaction engine of the note-taking canvas        *)
(* (the App component, src/unnamed/part_002, and the Block component,      *)
(* src/unnamed/part_000).                                                  *)
(*                                                                         *)
(* One action is one browser event, handled to completion: the handler     *)
(* runs against the state of the last render, every state update it queues *)
(* is applied in order, and the component re-renders before the next       *)
(* event.  Between two events the only parts of an old render that survive *)
(* are the closures React memoises (useCallback): handleGlobalUp keeps the *)
(* blocks and edges of the render in which one of its dependencies last    *)
(* changed (variable upClosure).                                           *)
(*                                                                         *)
(* Numbers are JavaScript doubles in the source.  Here coordinates are     *)
(* integers, the scale is a fraction n/d, and a quotient or a square root  *)
(* is rounded to the nearest integer.                                      *)
(***************************************************************************)
EXTENDS Integers, Sequences, FiniteSets, TLC

\* null where the value is otherwise a record (draggingBlock, connecting).
NULL == [null |-> TRUE]
\* null where the value is otherwise an id (selection, highlightedEdgeId).
NoId == 0
\* An optional field (category) that is present and holds undefined, and one
\* the object does not have.  Both read as undefined.
UNDEFINED == "undefined"
ABSENT == "absent"

\* ------------------------------------------------------------------ bounds
\* Events handled in one run of the gesture specification.
MaxEvents == 5
\* Blocks added in one run of the history specification.
MaxPushes == 12
\* Operations called in one run of the store specification.
MaxStoreOps == 4
\* Events handled in one run of the viewport specification.
MaxViewportEvents == 4
\* The drag specification's bound on the number of events of a run.
MaxDragEvents == 5
\* The resize specification's bound on the number of events of a run.
MaxResizeEvents == 5

\* ------------------------------------------------------- program constants
INITIAL_ZOOM == 1
HistoryKeep == 10
DefaultW == 240
DefaultH == 120
ClosestSteps == 50
NearSamples == 15
NearDefault == 25
NearDrag == 40
CpMax == 150
DupOffset == 20
\* Math.min(..., 5), and zoomIntensity = 0.001 = 1 / WheelUnits.
MaxScale == 5
WheelUnits == 1000
\* window.innerWidth and window.innerHeight of the run.
InnerWidth == 800
InnerHeight == 600

\* --------------------------------------------------------------- arithmetic
Abs(a) == IF a < 0 THEN -a ELSE a
Min(a, b) == IF a < b THEN a ELSE b
Max(a, b) == IF a > b THEN a ELSE b

\* a / b for b > 0, rounded to the nearest integer (halves round up).
DivR(a, b) == (2 * a + b) \div (2 * b)

RECURSIVE SqrtIter(_, _, _)
SqrtIter(n, lo, hi) ==
    IF lo >= hi THEN lo
    ELSE LET mid == (lo + hi + 1) \div 2
         IN IF mid * mid <= n THEN SqrtIter(n, mid, hi) ELSE SqrtIter(n, lo, mid - 1)

\* Math.hypot(dx, dy), rounded to the nearest integer: the root lies in
\* 0 .. |dx| + |dy|.
Hypot(dx, dy) ==
    LET n == dx * dx + dy * dy
        r == SqrtIter(n, 0, Abs(dx) + Abs(dy))
    IN IF n - r * r > r THEN r + 1 ELSE r

Pt(px, py) == [x |-> px, y |-> py]

RECURSIVE Gcd(_, _)
Gcd(a, b) == IF b = 0 THEN a ELSE Gcd(b, a % b)

\* The fraction n / d (d > 0) in lowest terms.
Frac(n, d) == LET g == Gcd(Abs(n), d) IN [n |-> n \div g, d |-> d \div g]
\* Math.max(0.1, ...): the least scale.
MinScale == [n |-> 1, d |-> 10]

\* v / scale, the scale being the fraction scale.n / scale.d.
DivScale(v, scale) == DivR(v * scale.d, scale.n)

\* ----------------------------------------------------------------- geometry
HandleTypes == {"top", "right", "bottom", "left"}

getOffset(h) ==
    CASE h = "top" -> Pt(0, -1)
      [] h = "bottom" -> Pt(0, 1)
      [] h = "left" -> Pt(-1, 0)
      [] h = "right" -> Pt(1, 0)

getControlPoints(p1, p2, h1, h2) ==
    LET dist == Hypot(p2.x - p1.x, p2.y - p1.y)
        o1 == getOffset(h1)
        o2 == getOffset(h2)
        cpDist == Min(DivR(dist, 2), CpMax)
    IN [cp1 |-> Pt(p1.x + o1.x * cpDist, p1.y + o1.y * cpDist),
        cp2 |-> Pt(p2.x + o2.x * cpDist, p2.y + o2.y * cpDist)]

\* The point at t = i / steps.
getPointOnBezier(i, steps, p1, cp1, cp2, p2) ==
    LET mt == steps - i
        den == steps * steps * steps
        c0 == mt * mt * mt
        c1 == 3 * mt * mt * i
        c2 == 3 * mt * i * i
        c3 == i * i * i
    IN Pt(DivR(c0 * p1.x + c1 * cp1.x + c2 * cp2.x + c3 * p2.x, den),
          DivR(c0 * p1.y + c1 * cp1.y + c2 * cp2.y + c3 * p2.y, den))

\* The square of distance(p1, p2): the code compares distances, and so their squares.
distance2(p1, p2) == (p2.x - p1.x) * (p2.x - p1.x) + (p2.y - p1.y) * (p2.y - p1.y)

RECURSIVE ClosestScan(_, _, _, _, _, _, _, _)
ClosestScan(i, point, p1, cp1, cp2, p2, minDist, bestPoint) ==
    IF i > ClosestSteps THEN bestPoint
    ELSE LET p == getPointOnBezier(i, ClosestSteps, p1, cp1, cp2, p2)
             d == distance2(point, p)
         IN IF minDist < 0 \/ d < minDist
            THEN ClosestScan(i + 1, point, p1, cp1, cp2, p2, d, p)
            ELSE ClosestScan(i + 1, point, p1, cp1, cp2, p2, minDist, bestPoint)

\* A faulty getClosestPointOnBezier, which does not snap: it returns the point.
getClosestPointUnsnapped(point, p1, p2, h1, h2) == point

\* minDist starts at Infinity (here: -1, "none yet").
getClosestPointOnBezier(point, p1, p2, h1, h2) ==
    LET cps == getControlPoints(p1, p2, h1, h2)
    IN ClosestScan(0, point, p1, cps.cp1, cps.cp2, p2, -1, p1)

isPointNearBezier(point, p1, p2, h1, h2, threshold) ==
    LET cps == getControlPoints(p1, p2, h1, h2)
    IN \E i \in 0..NearSamples :
          distance2(point, getPointOnBezier(i, NearSamples, p1, cps.cp1, cps.cp2, p2))
              < threshold * threshold

\* ------------------------------------------------------------------- events
\* A pointer event.  A mouse event carries clientX/clientY and a button.  A touch
\* event carries the list of the touches still on the screen, and no clientX; the
\* touch it is about (changedTouches[0]) is at `at`.
MouseEvent(p, b) ==
    [kind |-> "mouse", client |-> p, button |-> b, touches |-> <<>>, at |-> p]
TouchEvent(ts, p) ==
    [kind |-> "touch", client |-> Pt(0, 0), button |-> 0, touches |-> ts, at |-> p]

getClientPos(e) ==
    IF e.kind = "touch" /\ Len(e.touches) > 0 THEN e.touches[1]
    ELSE IF e.kind = "mouse" THEN e.client
    ELSE Pt(0, 0)

\* The mouse button a pointer-down carries (0: primary; a touch carries none).
ButtonOf(e) == IF e.kind = "mouse" THEN e.button ELSE 0

\* ----------------------------------------------------------- sequence helpers
\* Array.prototype.find over the indices I of the elements that pass its test:
\* the first of them (0: none).
FirstIdx(I) == IF I = {} THEN 0 ELSE CHOOSE i \in I : \A j \in I : i <= j

\* Array.prototype.slice(-n): the last n elements.
SliceLast(s, n) == IF Len(s) <= n THEN s ELSE SubSeq(s, Len(s) - n + 1, Len(s))

\* Array.prototype.slice(0, -1): all but the last element.
DropFirst(s) == IF Len(s) = 0 THEN s ELSE SubSeq(s, 2, Len(s))

DropLast(s) == IF Len(s) = 0 THEN s ELSE SubSeq(s, 1, Len(s) - 1)

\* -------------------------------------------------------------------- state
VARIABLES
    blocks,             \* useState<BlockData[]>
    edges,              \* useState<Edge[]>
    history,            \* useState<{blocks, edges}[]>
    selection,          \* useState<string | null>
    canvasState,        \* useState<CanvasState>: scale and pan
    isPanning,          \* useState(false)
    hasMoved,           \* hasMovedRef.current
    lastMousePos,       \* lastMousePos.current
    startMousePos,      \* startMousePos.current
    draggingBlock,      \* useState<{id, startX, startY, initialBlockX, initialBlockY} | null>
    connecting,         \* useState<{fromId, fromHandle, mousePos} | null>
    highlightedEdgeId,  \* useState<string | null>
    preventOverlap,     \* useState(false)
    upClosure,          \* {blocks, edges} of the render handleGlobalUp was memoised in
    loadPending,        \* initData() has not yet delivered the stored workspace
    aiPending,          \* the handleAiSubmit call that awaits its block, or NULL
    resizing,           \* the resize sessions whose document listeners are registered
    saveStatus,         \* useState<'saved' | 'saving' | 'error'>
    timers,             \* the autosave timeouts that are set and have not fired
    timer,              \* the latest autosave effect's const timer: its timeout's id
    saves,              \* the saveWorkspace calls that have not settled
    lastSaveCall,       \* observation: the scene of the latest saveWorkspace call, or NULL
    unloadListeners,    \* the window's beforeunload listeners
    hideListeners,      \* the document's visibilitychange listeners
    nextId,             \* the next uuidv4()
    events,             \* the number of events handled so far
    lastEvent,          \* observation: the handler that ran last, and what it did
    before              \* observation: the scene before the operation or drag under way

vars == <<blocks, edges, history, selection, canvasState, isPanning, hasMoved,
          lastMousePos, startMousePos, draggingBlock, connecting, highlightedEdgeId,
          preventOverlap,
          upClosure, loadPending, aiPending, resizing, nextId, events, lastEvent, before,
          saveStatus, timers, timer, saves, lastSaveCall, unloadListeners, hideListeners>>

\* The state of the autosave effect.  Only the autosave specification runs the
\* effect and its timer; the other specifications leave them as they are after
\* the mount.
autosaveVars == <<saveStatus, timers, timer, saves, lastSaveCall, unloadListeners,
                  hideListeners>>

gestureVars == <<isPanning, hasMoved, lastMousePos, startMousePos, draggingBlock, connecting,
                 highlightedEdgeId>>

\* --------------------------------------------------------------- scene store
BlockTypes == {"text", "image", "checklist", "code", "table"}

ChecklistH == 160
CodeW == 300
CodeH == 200
TableW == 320
TableH == 220
ImageH == 200
\* The offsets addBlock subtracts when it centres a block in the viewport.
CenterDX == 100
CenterDY == 50

BlockW(type) ==
    CASE type = "code" -> CodeW
      [] type = "table" -> TableW
      [] OTHER -> DefaultW

BlockH(type) ==
    CASE type = "checklist" -> ChecklistH
      [] type = "code" -> CodeH
      [] type = "table" -> TableH
      [] type = "image" -> ImageH
      [] OTHER -> DefaultH

BlockContent(type) ==
    CASE type = "checklist" -> "[New Item]"
      [] type = "code" -> "// Type your code here"
      [] type = "table" -> "{DONE,TITLE,NOTES}"
      [] OTHER -> ""

\* A title is the list of its parts: <<"Note">>, <<"Note", "(Copy)">>, ...; the
\* empty list is the empty (falsy) title, which duplicateBlock turns into undefined.
BlockTitle(type) ==
    CASE type = "checklist" -> <<"Checklist">>
      [] type = "code" -> <<"Code Snippet">>
      [] type = "table" -> <<"Fitness Plan">>
      [] type = "image" -> <<"Image">>
      [] OTHER -> <<"Note">>

BlockCategory(type) ==
    CASE type = "code" -> "code"
      [] type = "table" -> "fitness"
      [] OTHER -> UNDEFINED

BlockIds(bs) == {bs[i].id : i \in 1..Len(bs)}
EdgeIds(es) == {es[i].id : i \in 1..Len(es)}

BlockIdx(bs, id) == FirstIdx({i \in 1..Len(bs) : bs[i].id = id})
EdgeIdx(es, id) == FirstIdx({i \in 1..Len(es) : es[i].id = id})

Scene(bs, es) == [blocks |-> bs, edges |-> es]

\* JSON.stringify(scene): every block and edge is written field by field, and a
\* field whose value is undefined is left out of the text.
JsonStringify(scene) ==
    [blocks |-> [i \in 1..Len(scene.blocks) |->
                    LET b == scene.blocks[i]
                    IN [id |-> b.id, type |-> b.type, x |-> b.x, y |-> b.y,
                        w |-> b.w, h |-> b.h, content |-> b.content,
                        title |-> b.title,
                        category |-> IF b.category = UNDEFINED THEN ABSENT
                                     ELSE b.category]],
     edges |-> [i \in 1..Len(scene.edges) |->
                    LET e == scene.edges[i]
                    IN [id |-> e.id, fromId |-> e.fromId, toId |-> e.toId,
                        fromHandle |-> e.fromHandle, toHandle |-> e.toHandle]]]

\* JSON.parse(JSON.stringify(scene)): new objects, with the fields the text has.
JsonClone(scene) == JsonStringify(scene)

\* A faulty pushHistory, which puts the snapshot in front of the stack (unshift).
pushHistoryInFront(hist, scene) == <<JsonClone(scene)>> \o SliceLast(hist, HistoryKeep)

\* pushHistory's state update, the snapshot being the scene its closure sees.
pushHistory(hist, scene) == Append(SliceLast(hist, HistoryKeep), JsonClone(scene))

\* The block addBlock builds.
newBlock(id, type, xOffset, yOffset, cs) ==
    LET w == BlockW(type)
        h == BlockH(type)
        byClick == xOffset # 0 \/ yOffset # 0
        x0 == IF byClick THEN DivScale(xOffset - cs.pan.x, cs.scale)
              ELSE DivR((InnerWidth - 2 * cs.pan.x) * cs.scale.d, 2 * cs.scale.n) - CenterDX
        y0 == IF byClick THEN DivScale(yOffset - cs.pan.y, cs.scale)
              ELSE DivR((InnerHeight - 2 * cs.pan.y) * cs.scale.d, 2 * cs.scale.n) - CenterDY
        x == IF xOffset # 0 THEN x0 - w \div 2 ELSE x0
        y == IF xOffset # 0 THEN y0 - h \div 2 ELSE y0
    IN [id |-> id, type |-> type, x |-> x, y |-> y, w |-> w, h |-> h,
        content |-> BlockContent(type), title |-> BlockTitle(type),
        category |-> BlockCategory(type)]

\* A faulty spread, in which the fields of the block win: { ...updates, ...b }.
spreadUnder(b, updates) ==
    [f \in DOMAIN b \cup DOMAIN updates |-> IF f \in DOMAIN b THEN b[f] ELSE updates[f]]

\* { ...b, ...updates }: the own fields of both, those of updates winning.
spread(b, updates) ==
    [f \in DOMAIN b \cup DOMAIN updates |-> IF f \in DOMAIN updates THEN updates[f] ELSE b[f]]

\* updateBlock's state update for a position: a shallow merge into the block id.
updateBlockXY(bs, id, nx, ny) ==
    [i \in 1..Len(bs) |-> IF bs[i].id = id THEN [bs[i] EXCEPT !.x = nx, !.y = ny] ELSE bs[i]]

removeBlock(bs, id) == LET Keep(b) == b.id # id IN SelectSeq(bs, Keep)
\* A faulty edge pruning, which forgets the edges that end at the block.
removeIncidentFrom(es, id) == LET Keep(e) == e.fromId # id IN SelectSeq(es, Keep)
removeIncident(es, id) == LET Keep(e) == e.fromId # id /\ e.toId # id IN SelectSeq(es, Keep)
removeEdge(es, id) == LET Keep(e) == e.id # id IN SelectSeq(es, Keep)

getHandlePosition(blockId, handle, currentBlocks) ==
    LET i == BlockIdx(currentBlocks, blockId)
        block == currentBlocks[i]
    IN IF i = 0 THEN NULL
       ELSE CASE handle = "top" -> Pt(block.x + block.w \div 2, block.y)
              [] handle = "bottom" -> Pt(block.x + block.w \div 2, block.y + block.h)
              [] handle = "left" -> Pt(block.x, block.y + block.h \div 2)
              [] handle = "right" -> Pt(block.x + block.w, block.y + block.h \div 2)
              [] OTHER -> Pt(block.x, block.y)

\* An edge is drawn, and so can be clicked, when both its handle positions exist.
Rendered(e) ==
    /\ getHandlePosition(e.fromId, e.fromHandle, blocks) # NULL
    /\ getHandlePosition(e.toId, e.toHandle, blocks) # NULL

\* The dependencies of useCallback(handleGlobalUp): isPanning, connecting,
\* canvasState, draggingBlock, highlightedEdgeId.  When the event replaced one of
\* them, the next render memoises a new closure over that render's scene.
Memoise(depsChanged) ==
    upClosure' = IF depsChanged THEN Scene(blocks', edges') ELSE upClosure

\* The ids of the edges that are drawn, and so can be clicked.
RenderedEdgeIds == {edges[i].id : i \in {j \in 1..Len(edges) : Rendered(edges[j])}}

Idle == ~isPanning /\ draggingBlock = NULL /\ connecting = NULL

\* ------------------------------------------------------------ the stored data
\* What loadWorkspace() can deliver: nothing (null), or a scene an earlier run
\* saved.  StoredChain is three text blocks, A and B joined right-to-left and C
\* below them; its ids 1..4 are the uuids of that earlier run.
StoredA == [id |-> 1, type |-> "text", x |-> 0, y |-> 0, w |-> DefaultW, h |-> DefaultH,
            content |-> "", title |-> <<"Note">>, category |-> ABSENT]
StoredB == [StoredA EXCEPT !.id = 2, !.x = 600]
StoredC == [StoredA EXCEPT !.id = 3, !.x = 300, !.y = 300]
StoredEdge == [id |-> 4, fromId |-> 1, toId |-> 2, fromHandle |-> "right", toHandle |-> "left"]
StoredChain == Scene(<<StoredA, StoredB, StoredC>>, <<StoredEdge>>)
FirstFreshId == 5

\* ------------------------------------------------------------------ actions
NoScene == [of |-> "none", scene |-> Scene(<<>>, <<>>)]
\* The scene as it is before a single-step operation, or before the pointer-down of a drag.
BeforeOp == [of |-> "op", scene |-> Scene(blocks, edges)]
BeforeDrag == [of |-> "drag", scene |-> Scene(blocks, edges)]
\* The scene as it is before the release that directly follows a pointer-down on
\* the canvas background.
BeforeTap == [of |-> "tap", scene |-> Scene(blocks, edges)]
\* The scene as it is before the block of an AI request is appended.
BeforeAi == [of |-> "ai", scene |-> Scene(blocks, edges)]
\* The scene as it is before the sidebar's clear button empties it.
BeforeClear == [of |-> "clear", scene |-> Scene(blocks, edges)]
\* The same scene, once the undo that directly follows the operation or the drag has run.
Undone(what) == [of |-> what, scene |-> before.scene]

Observe(op, arg, effect, at, scene) ==
    /\ lastEvent' = [op |-> op, arg |-> arg, effect |-> effect, at |-> at]
    /\ before' = scene

\* useEffect(initData): the stored workspace arrives.  data = NULL: nothing stored.
initData(data) ==
    /\ loadPending
    /\ loadPending' = FALSE
    /\ IF data # NULL
       THEN blocks' = data.blocks /\ edges' = data.edges
       ELSE UNCHANGED <<blocks, edges>>
    /\ Observe("initData", 0, IF data # NULL THEN "loaded" ELSE "none", Pt(0, 0), NoScene)
    /\ UNCHANGED <<history, selection, canvasState, gestureVars, preventOverlap, nextId>>
    /\ UNCHANGED aiPending
    /\ UNCHANGED resizing
    /\ Memoise(FALSE)

\* Toolbar: onAddBlock(type) = addBlock(type, 0, 0).
addBlock(type) ==
    /\ history' = pushHistory(history, Scene(blocks, edges))
    /\ blocks' = Append(blocks, newBlock(nextId, type, 0, 0, canvasState))
    /\ selection' = nextId
    /\ nextId' = nextId + 1
    /\ Observe("addBlock", 0, type, Pt(0, 0), BeforeOp)
    /\ UNCHANGED <<edges, canvasState, gestureVars, preventOverlap, loadPending>>
    /\ UNCHANGED aiPending
    /\ UNCHANGED resizing
    /\ Memoise(FALSE)

\* Toolbar: onUndo.
handleUndo ==
    /\ IF Len(history) = 0
       THEN UNCHANGED <<blocks, edges, history>>
       ELSE LET previous == history[Len(history)]
            IN /\ blocks' = previous.blocks
               /\ edges' = previous.edges
               /\ history' = DropLast(history)
    /\ Observe("handleUndo", 0, IF Len(history) = 0 THEN "empty" ELSE "restored", Pt(0, 0),
               IF before.of = "op" THEN Undone("undone op")
               ELSE IF before.of = "drag" /\ lastEvent.op = "handleGlobalUp"
                    THEN Undone("undone drag")
               ELSE IF before.of = "ai" THEN Undone("undone ai")
               ELSE IF before.of = "clear" THEN Undone("undone clear")
               ELSE NoScene)
    /\ UNCHANGED <<selection, canvasState, gestureVars, preventOverlap, loadPending, nextId>>
    /\ UNCHANGED aiPending
    /\ UNCHANGED resizing
    /\ Memoise(FALSE)

\* Block: onDelete(block.id) = deleteBlock(block.id).
deleteBlock(id) ==
    /\ history' = pushHistory(history, Scene(blocks, edges))
    /\ blocks' = removeBlock(blocks, id)
    /\ edges' = removeIncident(edges, id)
    /\ selection' = IF selection = id THEN NoId ELSE selection
    /\ Observe("deleteBlock", id,
               IF id \notin BlockIds(blocks) THEN "missing"
               ELSE IF removeIncident(edges, id) # edges THEN "cascade" ELSE "deleted",
               Pt(0, 0), BeforeOp)
    /\ UNCHANGED <<canvasState, gestureVars, preventOverlap, loadPending, nextId>>
    /\ UNCHANGED aiPending
    /\ UNCHANGED resizing
    /\ Memoise(FALSE)

\* onClick of a drawn edge: deleteEdge(edge.id).
deleteEdge(id) ==
    /\ history' = pushHistory(history, Scene(blocks, edges))
    /\ edges' = removeEdge(edges, id)
    /\ Observe("deleteEdge", id, IF id \in EdgeIds(edges) THEN "deleted" ELSE "missing",
               Pt(0, 0), BeforeOp)
    /\ UNCHANGED <<blocks, selection, canvasState, gestureVars, preventOverlap,
                   loadPending, nextId>>
    /\ UNCHANGED aiPending
    /\ UNCHANGED resizing
    /\ Memoise(FALSE)

\* Block: onDuplicate(block.id).
duplicateBlock(id) ==
    /\ id \in BlockIds(blocks)
    /\ LET block == blocks[BlockIdx(blocks, id)]
           copy == [block EXCEPT !.id = nextId, !.x = block.x + DupOffset,
                                 !.y = block.y + DupOffset,
                                 !.title = IF block.title # <<>>
                                           THEN Append(block.title, "(Copy)") ELSE <<>>]
       IN /\ history' = pushHistory(history, Scene(blocks, edges))
          /\ blocks' = Append(blocks, copy)
          /\ selection' = nextId
    /\ nextId' = nextId + 1
    /\ Observe("duplicateBlock", 0, "copied", Pt(0, 0), BeforeOp)
    /\ UNCHANGED <<edges, canvasState, gestureVars, preventOverlap, loadPending>>
    /\ UNCHANGED aiPending
    /\ UNCHANGED resizing
    /\ Memoise(FALSE)

\* Block: onUpdate(block.id, updates) = updateBlock(block.id, updates).
updateBlock(id, updates) ==
    /\ blocks' = [i \in 1..Len(blocks) |->
                      IF blocks[i].id = id THEN spread(blocks[i], updates) ELSE blocks[i]]
    /\ Observe("updateBlock", id, IF id \in BlockIds(blocks) THEN "merged" ELSE "missing",
               Pt(0, 0),
               [of |-> "update", scene |-> Scene(blocks, edges), history |-> history,
                updates |-> updates])
    /\ UNCHANGED <<edges, history, selection, canvasState, gestureVars, preventOverlap,
                   loadPending, nextId>>
    /\ UNCHANGED aiPending
    /\ UNCHANGED resizing
    /\ Memoise(FALSE)

\* Sidebar: onImport, at reader.onload.  parsed is what JSON.parse made of the
\* file: an object with the fields the file has (blocks, edges, both, others), or
\* NULL when the text is no JSON or no object (the catch: an alert, no update).
handleImport(parsed) ==
    LET hasBlocks == parsed # NULL /\ "blocks" \in DOMAIN parsed
        hasEdges == parsed # NULL /\ "edges" \in DOMAIN parsed
    IN /\ blocks' = IF hasBlocks THEN parsed.blocks ELSE blocks
       /\ edges' = IF hasEdges THEN parsed.edges ELSE edges
       /\ Observe("handleImport", 0,
                  IF hasBlocks /\ hasEdges THEN "blocks+edges"
                  ELSE IF hasBlocks THEN "blocks" ELSE IF hasEdges THEN "edges"
                  ELSE "none",
                  Pt(0, 0), NoScene)
       /\ UNCHANGED <<history, selection, canvasState, gestureVars, preventOverlap,
                      loadPending, nextId>>
       /\ UNCHANGED aiPending
       /\ UNCHANGED resizing
       /\ Memoise(FALSE)

\* Sidebar: setPreventOverlap.
setPreventOverlap(v) ==
    /\ preventOverlap # v
    /\ preventOverlap' = v
    /\ Observe("setPreventOverlap", 0, "set", Pt(0, 0), NoScene)
    /\ UNCHANGED <<blocks, edges, history, selection, canvasState, gestureVars,
                   loadPending, nextId>>
    /\ UNCHANGED aiPending
    /\ UNCHANGED resizing
    /\ Memoise(FALSE)

\* The listeners an autosave effect registers, by the effect run that made
\* them: its handleImmediateSave, and the arrow function that calls it when the
\* document is hidden.  The run is named by the id of its timeout.
handleImmediateSave(run) == [fn |-> "handleImmediateSave", run |-> run]
HideListener(run) == [fn |-> "() => { if (hidden) handleImmediateSave() }", run |-> run]

Init ==
    /\ blocks = <<>>
    /\ edges = <<>>
    /\ history = <<>>
    /\ selection = NoId
    /\ canvasState = [scale |-> [n |-> INITIAL_ZOOM, d |-> 1], pan |-> Pt(0, 0)]
    /\ isPanning = FALSE
    /\ hasMoved = FALSE
    /\ lastMousePos = Pt(0, 0)
    /\ startMousePos = Pt(0, 0)
    /\ draggingBlock = NULL
    /\ connecting = NULL
    /\ highlightedEdgeId = NoId
    /\ preventOverlap = FALSE
    /\ upClosure = Scene(<<>>, <<>>)
    /\ loadPending = TRUE
    /\ aiPending = NULL
    /\ resizing = <<>>
    /\ nextId = FirstFreshId
    /\ events = 0
    /\ lastEvent = [op |-> "mount", arg |-> 0, effect |-> "none", at |-> Pt(0, 0)]
    /\ before = NoScene
    /\ saveStatus = "saving"
    /\ timers = <<[id |-> 0, blocks |-> <<>>, edges |-> <<>>]>>
    /\ timer = 0
    /\ saves = <<>>
    /\ lastSaveCall = NULL
    /\ unloadListeners = <<handleImmediateSave(0)>>
    /\ hideListeners = <<HideListener(0)>>

\* ----------------------------------------------------------- gesture engine
ToWorld(pos, cs) == Pt(DivScale(pos.x - cs.pan.x, cs.scale), DivScale(pos.y - cs.pan.y, cs.scale))

\* A faulty handleCanvasDown, which forgets to reset hasMovedRef.
handleCanvasDownKeepMoved(e, onBackground) ==
    LET pos == getClientPos(e)
        ignored == \/ e.kind = "mouse" /\ e.button # 0 /\ e.button # 1
                   \/ ~onBackground
    IN /\ IF ignored
          THEN UNCHANGED <<isPanning, lastMousePos, startMousePos, hasMoved, selection>>
          ELSE /\ isPanning' = TRUE
               /\ lastMousePos' = pos
               /\ startMousePos' = pos
               /\ hasMoved' = hasMoved
               /\ selection' = NoId
       /\ Observe("handleCanvasDown", ButtonOf(e), IF ignored THEN "ignored" ELSE "panning",
                  Pt(0, 0), NoScene)
       /\ UNCHANGED <<blocks, edges, history, canvasState, draggingBlock, connecting,
                      highlightedEdgeId, preventOverlap, loadPending, nextId>>
       /\ UNCHANGED aiPending
       /\ UNCHANGED resizing
       /\ Memoise(~ignored /\ ~isPanning)

\* onMouseDown / onTouchStart of the canvas, the event's target being the canvas
\* itself (onBackground) or one of its descendants.
handleCanvasDown(e, onBackground) ==
    LET pos == getClientPos(e)
        ignored == \/ e.kind = "mouse" /\ e.button # 0 /\ e.button # 1
                   \/ ~onBackground
    IN /\ IF ignored
          THEN UNCHANGED <<isPanning, lastMousePos, startMousePos, hasMoved, selection>>
          ELSE /\ isPanning' = TRUE
               /\ lastMousePos' = pos
               /\ startMousePos' = pos
               /\ hasMoved' = FALSE
               /\ selection' = NoId
       /\ Observe("handleCanvasDown", ButtonOf(e), IF ignored THEN "ignored" ELSE "panning",
                  Pt(0, 0), NoScene)
       /\ UNCHANGED <<blocks, edges, history, canvasState, draggingBlock, connecting,
                      highlightedEdgeId, preventOverlap, loadPending, nextId>>
       /\ UNCHANGED aiPending
       /\ UNCHANGED resizing
       /\ Memoise(~ignored /\ ~isPanning)

\* onMouseDown / onTouchStart of a block.  part: "input" (a textarea, an input or
\* a button), "dragHandle" (the header, data-drag-handle) or "body".  The block's
\* own onSelect(block.id) runs first and sets the same selection.
handleBlockDown(e, id, part) ==
    LET pos == getClientPos(e)
        i == BlockIdx(blocks, id)
        drag == part = "dragHandle" /\ i # 0
    IN /\ id \in BlockIds(blocks)
       /\ selection' = id
       /\ IF drag
          THEN /\ draggingBlock' = [id |-> id, startX |-> pos.x, startY |-> pos.y,
                                    initialBlockX |-> blocks[i].x,
                                    initialBlockY |-> blocks[i].y]
               /\ history' = pushHistory(history, Scene(blocks, edges))
          ELSE UNCHANGED <<draggingBlock, history>>
       /\ Observe("handleBlockDown", ButtonOf(e), IF drag THEN "dragging" ELSE "selected",
                  Pt(0, 0), IF drag THEN BeforeDrag ELSE NoScene)
       /\ UNCHANGED <<blocks, edges, canvasState, isPanning, hasMoved, lastMousePos, startMousePos,
                      connecting, highlightedEdgeId, preventOverlap, loadPending, nextId>>
       /\ UNCHANGED aiPending
       /\ UNCHANGED resizing
       /\ Memoise(drag)

\* onMouseDown / onTouchStart of a connection handle (propagation stopped).
handleConnectStart(id, handle, e) ==
    LET pos == getClientPos(e)
    IN /\ id \in BlockIds(blocks)
       /\ connecting' = [fromId |-> id, fromHandle |-> handle,
                         mousePos |-> ToWorld(pos, canvasState)]
       /\ Observe("handleConnectStart", ButtonOf(e), "connecting", Pt(0, 0), NoScene)
       /\ UNCHANGED <<blocks, edges, history, selection, canvasState, isPanning, hasMoved,
                      lastMousePos, startMousePos, draggingBlock, highlightedEdgeId, preventOverlap,
                      loadPending, nextId>>
       /\ UNCHANGED aiPending
       /\ UNCHANGED resizing
       /\ Memoise(TRUE)

\* onMouseUp / onTouchEnd of a connection handle.  Propagation is stopped, so the
\* window's mouseup / touchend listener (handleGlobalUp) does not run.
handleConnectEnd(toId, toHandle) ==
    LET connect == connecting # NULL /\ connecting.fromId # toId
    IN /\ toId \in BlockIds(blocks)
       /\ IF connect
          THEN /\ history' = pushHistory(history, Scene(blocks, edges))
               /\ edges' = Append(edges, [id |-> nextId, fromId |-> connecting.fromId,
                                          toId |-> toId,
                                          fromHandle |-> connecting.fromHandle,
                                          toHandle |-> toHandle])
               /\ nextId' = nextId + 1
          ELSE UNCHANGED <<history, edges, nextId>>
       /\ connecting' = NULL
       /\ Observe("handleConnectEnd", IF connect THEN toId ELSE NoId,
                  IF connect THEN "connected" ELSE "none", Pt(0, 0),
                  IF connect THEN BeforeOp ELSE NoScene)
       /\ UNCHANGED <<blocks, selection, canvasState, isPanning, hasMoved, lastMousePos,
                      startMousePos,
                      draggingBlock, highlightedEdgeId, preventOverlap, loadPending>>
       /\ UNCHANGED aiPending
       /\ UNCHANGED resizing
       /\ Memoise(connecting # NULL)

\* The axis-aligned intersection test of the overlap prevention.
Hits(rect, others) ==
    \E k \in 1..Len(others) :
        /\ rect.x < others[k].x + others[k].w
        /\ rect.x + rect.w > others[k].x
        /\ rect.y < others[k].y + others[k].h
        /\ rect.y + rect.h > others[k].y

\* A faulty overlap prevention, which tests the x axis alone.
DragTargetXOnly(pos) ==
    LET dx == DivScale(pos.x - draggingBlock.startX, canvasState.scale)
        dy == DivScale(pos.y - draggingBlock.startY, canvasState.scale)
        rawX == draggingBlock.initialBlockX + dx
        rawY == draggingBlock.initialBlockY + dy
        i == BlockIdx(blocks, draggingBlock.id)
        others == removeBlock(blocks, draggingBlock.id)
    IN IF preventOverlap /\ i # 0
       THEN LET cur == blocks[i]
                hitX == Hits([x |-> rawX, y |-> cur.y, w |-> cur.w, h |-> cur.h], others)
            IN Pt(IF hitX THEN cur.x ELSE rawX, rawY)
       ELSE Pt(rawX, rawY)

\* The position a drag move gives the dragged block.
DragTarget(pos) ==
    LET dx == DivScale(pos.x - draggingBlock.startX, canvasState.scale)
        dy == DivScale(pos.y - draggingBlock.startY, canvasState.scale)
        rawX == draggingBlock.initialBlockX + dx
        rawY == draggingBlock.initialBlockY + dy
        i == BlockIdx(blocks, draggingBlock.id)
        others == removeBlock(blocks, draggingBlock.id)
    IN IF preventOverlap /\ i # 0
       THEN LET cur == blocks[i]
                hitX == Hits([x |-> rawX, y |-> cur.y, w |-> cur.w, h |-> cur.h], others)
                nextX == IF hitX THEN cur.x ELSE rawX
                hitY == Hits([x |-> nextX, y |-> rawY, w |-> cur.w, h |-> cur.h], others)
                nextY == IF hitY THEN cur.y ELSE rawY
            IN Pt(nextX, nextY)
       ELSE Pt(rawX, rawY)

\* A faulty search, which goes on after a match and so keeps the last edge found.
FoundEdgeLast(center) ==
    LET Close(edge) ==
            /\ edge.fromId # draggingBlock.id
            /\ edge.toId # draggingBlock.id
            /\ LET p1 == getHandlePosition(edge.fromId, edge.fromHandle, blocks)
                   p2 == getHandlePosition(edge.toId, edge.toHandle, blocks)
               IN /\ p1 # NULL
                  /\ p2 # NULL
                  /\ isPointNearBezier(center, p1, p2, edge.fromHandle, edge.toHandle,
                                       NearDrag)
        I == {j \in 1..Len(edges) : Close(edges[j])}
    IN IF I = {} THEN NoId ELSE edges[CHOOSE i \in I : \A j \in I : i >= j].id

\* The first edge, in array order, that does not touch the dragged block and
\* passes within NearDrag of center (NoId: none).
FoundEdge(center) ==
    LET Near(edge) ==
            /\ edge.fromId # draggingBlock.id
            /\ edge.toId # draggingBlock.id
            /\ LET p1 == getHandlePosition(edge.fromId, edge.fromHandle, blocks)
                   p2 == getHandlePosition(edge.toId, edge.toHandle, blocks)
               IN /\ p1 # NULL
                  /\ p2 # NULL
                  /\ isPointNearBezier(center, p1, p2, edge.fromHandle, edge.toHandle,
                                       NearDrag)
        k == FirstIdx({j \in 1..Len(edges) : Near(edges[j])})
    IN IF k = 0 THEN NoId ELSE edges[k].id

\* The window's mousemove / touchmove listener.
handleGlobalMove(e) ==
    LET pos == getClientPos(e)
        dragging == draggingBlock # NULL
        target == DragTarget(pos)
        i == BlockIdx(blocks, draggingBlock.id)
        found == FoundEdge(Pt(target.x + blocks[i].w \div 2, target.y + blocks[i].h \div 2))
        searched == dragging /\ i # 0
    IN /\ hasMoved' = IF isPanning \/ dragging THEN TRUE ELSE hasMoved
       /\ IF isPanning
          THEN /\ canvasState' = [canvasState EXCEPT
                                     !.pan = Pt(canvasState.pan.x + pos.x - lastMousePos.x,
                                                canvasState.pan.y + pos.y - lastMousePos.y)]
               /\ lastMousePos' = pos
          ELSE UNCHANGED <<canvasState, lastMousePos>>
       /\ blocks' = IF dragging
                    THEN updateBlockXY(blocks, draggingBlock.id, target.x, target.y)
                    ELSE blocks
       /\ highlightedEdgeId' = IF searched THEN found ELSE highlightedEdgeId
       /\ connecting' = IF connecting # NULL
                        THEN [connecting EXCEPT !.mousePos = ToWorld(pos, canvasState)]
                        ELSE NULL
       /\ Observe("handleGlobalMove", 0,
                  IF isPanning THEN "pan" ELSE IF dragging THEN "drag"
                  ELSE IF connecting # NULL THEN "connect" ELSE "none",
                  IF searched THEN pos ELSE Pt(0, 0),
                  IF before.of = "drag" /\ dragging THEN before ELSE NoScene)
       /\ UNCHANGED <<edges, history, selection, isPanning, draggingBlock, preventOverlap,
                      loadPending, nextId, startMousePos>>
       /\ UNCHANGED aiPending
       /\ UNCHANGED resizing
       /\ Memoise(isPanning \/ connecting # NULL \/ highlightedEdgeId' # highlightedEdgeId)

\* The handles edge-insertion gives the inserted block.
NewInHandle(edge) ==
    IF edge.fromHandle = "bottom" \/ edge.toHandle = "top" THEN "top"
    ELSE IF edge.fromHandle = "top" \/ edge.toHandle = "bottom" THEN "bottom"
    ELSE "left"

\* A faulty choice, which lets the path leave the block by the side it came in.
NewOutHandleSameSide(edge) == NewInHandle(edge)

NewOutHandle(edge) ==
    IF edge.fromHandle = "bottom" \/ edge.toHandle = "top" THEN "bottom"
    ELSE IF edge.fromHandle = "top" \/ edge.toHandle = "bottom" THEN "top"
    ELSE "right"

\* setEdges(prev => prev.filter(e => e.id !== edge.id).concat([newEdge1, newEdge2]))
SpliceEdges(es, edge, blockId, id1, id2) ==
    removeEdge(es, edge.id)
        \o <<[id |-> id1, fromId |-> edge.fromId, toId |-> blockId,
              fromHandle |-> edge.fromHandle, toHandle |-> NewInHandle(edge)],
             [id |-> id2, fromId |-> blockId, toId |-> edge.toId,
              fromHandle |-> NewOutHandle(edge), toHandle |-> edge.toHandle]>>

\* A faulty tap test, which forgets that a tap ends a pan session.
isTapUngated == ~hasMoved

\* isPanning && !hasMovedRef.current: the release ends a pan that never moved.
isTap == isPanning /\ ~hasMoved

\* The window's mouseup / touchend listener.  Its addBlock and pushHistory are
\* those of the render it was memoised in: they snapshot upClosure.
handleGlobalUp(e) ==
    LET pos == getClientPos(e)
        tap == isTap
        k == IF draggingBlock # NULL /\ highlightedEdgeId # NoId
             THEN EdgeIdx(edges, highlightedEdgeId) ELSE 0
        edge == edges[k]
        i == BlockIdx(blocks, draggingBlock.id)
        obj == blocks[i]
        p1 == getHandlePosition(edge.fromId, edge.fromHandle, blocks)
        p2 == getHandlePosition(edge.toId, edge.toHandle, blocks)
        insert == k # 0 /\ i # 0 /\ p1 # NULL /\ p2 # NULL
        snapPoint == getClosestPointOnBezier(
                         Pt(obj.x + obj.w \div 2, obj.y + obj.h \div 2),
                         p1, p2, edge.fromHandle, edge.toHandle)
        id0 == IF tap THEN nextId + 1 ELSE nextId
        history1 == IF tap THEN pushHistory(history, upClosure) ELSE history
        blocks1 == IF tap
                   THEN Append(blocks, newBlock(nextId, "text", pos.x, pos.y, canvasState))
                   ELSE blocks
    IN /\ history' = IF k # 0 THEN pushHistory(history1, upClosure) ELSE history1
       /\ blocks' = IF insert
                    THEN updateBlockXY(blocks1, draggingBlock.id,
                                       snapPoint.x - obj.w \div 2, snapPoint.y - obj.h \div 2)
                    ELSE blocks1
       /\ edges' = IF insert
                   THEN SpliceEdges(edges, edge, draggingBlock.id, id0, id0 + 1)
                   ELSE edges
       /\ nextId' = IF insert THEN id0 + 2 ELSE id0
       /\ selection' = IF tap THEN nextId ELSE selection
       /\ isPanning' = FALSE
       /\ draggingBlock' = NULL
       /\ highlightedEdgeId' = NoId
       /\ connecting' = NULL
       /\ Observe("handleGlobalUp", 0,
                  IF tap /\ insert THEN "tap+insert" ELSE IF tap THEN "tap"
                  ELSE IF insert THEN "insert" ELSE IF k # 0 THEN "push"
                  ELSE IF draggingBlock # NULL THEN "drop" ELSE "none",
                  IF isPanning THEN e.at ELSE Pt(0, 0),
                  IF before.of = "drag" /\ draggingBlock # NULL THEN before
                  ELSE IF lastEvent.op = "handleCanvasDown" /\ lastEvent.effect = "panning"
                       THEN BeforeTap
                  ELSE NoScene)
       /\ UNCHANGED <<canvasState, hasMoved, lastMousePos, startMousePos, preventOverlap,
                      loadPending>>
       /\ UNCHANGED aiPending
       /\ UNCHANGED resizing
       /\ Memoise(isPanning \/ draggingBlock # NULL \/ highlightedEdgeId # NoId
                  \/ connecting # NULL)

\* ------------------------------------------------------------------ viewport
\* A faulty clamp, whose lower bound is 0.01.
clampScaleLow(raw) ==
    IF raw.n * 100 < raw.d THEN [n |-> 1, d |-> 100]
    ELSE IF raw.n > MaxScale * raw.d THEN [n |-> MaxScale, d |-> 1]
    ELSE raw

\* Math.min(Math.max(0.1, raw), 5), raw being the fraction raw.n / raw.d.
clampScale(raw) ==
    IF raw.n * MinScale.d < raw.d * MinScale.n THEN MinScale
    ELSE IF raw.n > MaxScale * raw.d THEN [n |-> MaxScale, d |-> 1]
    ELSE raw

\* The canvas transform translate(pan) scale(scale), origin top-left: where the
\* browser draws the world point p.
ToScreenPanFirst(p, cs) ==
    Pt(DivR((p.x + cs.pan.x) * cs.scale.n, cs.scale.d),
       DivR((p.y + cs.pan.y) * cs.scale.n, cs.scale.d))

ToScreen(p, cs) ==
    Pt(DivR(p.x * cs.scale.n, cs.scale.d) + cs.pan.x,
       DivR(p.y * cs.scale.n, cs.scale.d) + cs.pan.y)

WheelEvent(p, dy) == [kind |-> "wheel", client |-> p, deltaY |-> dy]

\* mouse - (mouse - pan) * (newScale / scale), on one axis.
zoomedPan(mouse, pan, newScale, scale) ==
    LET ratio == Frac(newScale.n * scale.d, newScale.d * scale.n)
    IN mouse - DivR((mouse - pan) * ratio.n, ratio.d)

\* A faulty handleWheel, whose pan uses the ratio of the unclamped scale.
handleWheelRawRatio(e) ==
    LET scale == canvasState.scale
        raw == Frac(scale.n * (WheelUnits - e.deltaY), scale.d * WheelUnits)
        newScale == clampScale(raw)
    IN /\ canvasState' = [scale |-> newScale,
                          pan |-> Pt(zoomedPan(e.client.x, canvasState.pan.x, raw, scale),
                                     zoomedPan(e.client.y, canvasState.pan.y, raw, scale))]
       /\ Observe("handleWheel", e.deltaY, IF newScale = raw THEN "zoomed" ELSE "clamped",
                  e.client,
                  [of |-> "wheel", scene |-> Scene(blocks, edges),
                   canvasState |-> canvasState])
       /\ UNCHANGED <<blocks, edges, history, selection, gestureVars, preventOverlap,
                      loadPending, nextId>>
       /\ UNCHANGED aiPending
       /\ UNCHANGED resizing
       /\ Memoise(TRUE)

\* onWheel of the app's root element.
handleWheel(e) ==
    LET scale == canvasState.scale
        raw == Frac(scale.n * (WheelUnits - e.deltaY), scale.d * WheelUnits)
        newScale == clampScale(raw)
    IN /\ canvasState' = [scale |-> newScale,
                          pan |-> Pt(zoomedPan(e.client.x, canvasState.pan.x, newScale, scale),
                                     zoomedPan(e.client.y, canvasState.pan.y, newScale, scale))]
       /\ Observe("handleWheel", e.deltaY, IF newScale = raw THEN "zoomed" ELSE "clamped",
                  e.client,
                  [of |-> "wheel", scene |-> Scene(blocks, edges),
                   canvasState |-> canvasState])
       /\ UNCHANGED <<blocks, edges, history, selection, gestureVars, preventOverlap,
                      loadPending, nextId>>
       /\ UNCHANGED aiPending
       /\ UNCHANGED resizing
       /\ Memoise(TRUE)

\* ------------------------------------------------------------- AI insertion
\* generateBlockFromPrompt(prompt, centerPos), the block getting the id uuidv4()
\* gives it.  A prompt is its topic (the keyword it matches: "todo", "gym", or
\* "none") and the first number in it (-1: no number).
generateBlockFromPrompt(id, prompt, centerPos) ==
    LET parsed == IF prompt.count = -1 THEN 3 ELSE prompt.count
        count == IF parsed > 20 THEN 20 ELSE IF parsed < 1 THEN 1 ELSE parsed
        type == CASE prompt.topic = "gym" -> "table"
                  [] prompt.topic = "todo" -> "checklist"
                  [] OTHER -> "text"
        w == CASE prompt.topic = "gym" -> 340
               [] prompt.topic = "todo" -> 260
               [] OTHER -> 240
        h == CASE prompt.topic = "gym" -> Min(100 + count * 35, 600)
               [] prompt.topic = "todo" -> Min(120 + count * 30, 600)
               [] OTHER -> 160
    IN [id |-> id, type |-> type,
        x |-> centerPos.x - DivR(w, 2), y |-> centerPos.y - DivR(h, 2),
        w |-> w, h |-> h,
        content |-> CASE prompt.topic = "gym" -> "{Exercise,Sets,Reps}"
                      [] prompt.topic = "todo" -> "[Task]"
                      [] OTHER -> "prompt",
        title |-> CASE prompt.topic = "gym" -> <<"Workout Plan">>
                    [] prompt.topic = "todo" -> <<"To-Do">>
                    [] OTHER -> <<"Note">>,
        category |-> CASE prompt.topic = "gym" -> "fitness"
                       [] OTHER -> "general"]

\* Toolbar: onAiSubmit(prompt), up to its await.  The prompt's input and button
\* are disabled while a request is loading.  The call keeps the pushHistory of
\* the render it was made in, which snapshots that render's blocks and edges.
handleAiSubmit(prompt) ==
    /\ aiPending = NULL
    /\ aiPending' = [closure |-> Scene(blocks, edges), prompt |-> prompt,
                     center |-> Pt(DivR((InnerWidth - 2 * canvasState.pan.x)
                                            * canvasState.scale.d,
                                        2 * canvasState.scale.n),
                                   DivR((InnerHeight - 2 * canvasState.pan.y)
                                            * canvasState.scale.d,
                                        2 * canvasState.scale.n))]
    /\ Observe("handleAiSubmit", 0, "loading", Pt(0, 0), NoScene)
    /\ UNCHANGED <<blocks, edges, history, selection, canvasState, gestureVars,
                   preventOverlap, loadPending, nextId>>
    /\ UNCHANGED resizing
    /\ Memoise(FALSE)

\* handleAiSubmit after its await: generateBlockFromPrompt has resolved.
handleAiSubmitResumed ==
    /\ aiPending # NULL
    /\ history' = pushHistory(history, aiPending.closure)
    /\ blocks' = Append(blocks, generateBlockFromPrompt(nextId, aiPending.prompt,
                                                        aiPending.center))
    /\ selection' = nextId
    /\ nextId' = nextId + 1
    /\ aiPending' = NULL
    /\ Observe("handleAiSubmitResumed", 0, "inserted", Pt(0, 0), BeforeAi)
    /\ UNCHANGED <<edges, canvasState, gestureVars, preventOverlap, loadPending>>
    /\ UNCHANGED resizing
    /\ Memoise(FALSE)

\* ------------------------------------------------------------------- resize
\* Block.handleResizeStart's minimum size.
MinW == 150
MinH == 100
ResizeDirections == {"se", "sw", "ne", "nw"}

\* 'touches' in e ? e.touches[0] : e, for its clientX and clientY.
ResizePos(e) == IF e.kind = "touch" THEN e.touches[1] ELSE e.client

\* A faulty onMove, which does not hold the block to its minimum size.
ResizedUnclamped(s, pos) ==
    LET deltaX == DivScale(pos.x - s.startX, s.scale)
        deltaY == DivScale(pos.y - s.startY, s.scale)
        south == s.direction \in {"se", "sw"}
        east == s.direction \in {"se", "ne"}
    IN [w |-> IF east THEN s.startW + deltaX ELSE s.startW - deltaX,
        h |-> IF south THEN s.startH + deltaY ELSE s.startH - deltaY,
        x |-> IF east THEN s.startBlockX ELSE s.startBlockX + deltaX,
        y |-> IF south THEN s.startBlockY ELSE s.startBlockY + deltaY]

\* A faulty onMove, which clamps the size and moves the north and west sides by
\* the whole pointer delta.
ResizedShiftsUnclamped(s, pos) ==
    LET deltaX == DivScale(pos.x - s.startX, s.scale)
        deltaY == DivScale(pos.y - s.startY, s.scale)
        south == s.direction \in {"se", "sw"}
        east == s.direction \in {"se", "ne"}
    IN [w |-> IF east THEN Max(MinW, s.startW + deltaX) ELSE Max(MinW, s.startW - deltaX),
        h |-> IF south THEN Max(MinH, s.startH + deltaY) ELSE Max(MinH, s.startH - deltaY),
        x |-> IF east THEN s.startBlockX ELSE s.startBlockX + deltaX,
        y |-> IF south THEN s.startBlockY ELSE s.startBlockY + deltaY]

\* The updates onMove hands to onUpdate, for the session s and the pointer at pos.
\* A direction has 's' or 'n', and 'e' or 'w'.
Resized(s, pos) ==
    LET deltaX == DivScale(pos.x - s.startX, s.scale)
        deltaY == DivScale(pos.y - s.startY, s.scale)
        south == s.direction \in {"se", "sw"}
        east == s.direction \in {"se", "ne"}
        dY == IF s.startH - deltaY < MinH THEN s.startH - MinH ELSE deltaY
        dX == IF s.startW - deltaX < MinW THEN s.startW - MinW ELSE deltaX
    IN [w |-> IF east THEN Max(MinW, s.startW + deltaX) ELSE s.startW - dX,
        h |-> IF south THEN Max(MinH, s.startH + deltaY) ELSE s.startH - dY,
        x |-> IF east THEN s.startBlockX ELSE s.startBlockX + dX,
        y |-> IF south THEN s.startBlockY ELSE s.startBlockY + dY]

\* onMouseDown / onTouchStart of one of the four corner handles, which the
\* selected block shows.  Propagation is stopped, so no handler of the block or
\* of the canvas runs.  The session keeps the block and the scale of its render.
handleResizeStart(e, id, direction) ==
    LET pos == ResizePos(e)
        block == blocks[BlockIdx(blocks, id)]
    IN /\ id \in BlockIds(blocks)
       /\ selection = id
       /\ resizing' = Append(resizing,
                             [id |-> id, direction |-> direction,
                              startX |-> pos.x, startY |-> pos.y,
                              startW |-> block.w, startH |-> block.h,
                              startBlockX |-> block.x, startBlockY |-> block.y,
                              scale |-> canvasState.scale])
       /\ Observe("handleResizeStart", id, direction, Pt(0, 0), NoScene)
       /\ UNCHANGED <<blocks, edges, history, selection, canvasState, gestureVars,
                      preventOverlap, loadPending, nextId>>
       /\ UNCHANGED aiPending
       /\ Memoise(FALSE)

\* The blocks after the onMove listeners of the sessions k.. have run, in the
\* order they were registered: each calls onUpdate (updateBlock) on its block.
RECURSIVE ResizeAll(_, _, _)
ResizeAll(bs, k, pos) ==
    IF k > Len(resizing) THEN bs
    ELSE LET s == resizing[k]
             next == [i \in 1..Len(bs) |->
                         IF bs[i].id = s.id THEN spread(bs[i], Resized(s, pos)) ELSE bs[i]]
         IN ResizeAll(next, k + 1, pos)

\* A mousemove / touchmove on the document while corner handles are held and no
\* canvas gesture is under way (the window's handleGlobalMove then changes
\* nothing).
onMove(e) ==
    /\ resizing # <<>>
    /\ Idle
    /\ blocks' = ResizeAll(blocks, 1, ResizePos(e))
    /\ Observe("onMove", 0, "resized", Pt(0, 0), NoScene)
    /\ UNCHANGED <<edges, history, selection, canvasState, gestureVars, preventOverlap,
                   loadPending, nextId>>
    /\ UNCHANGED <<aiPending, resizing>>
    /\ Memoise(FALSE)

\* A mouseup / touchend on the document: every session removes its listeners.
\* With no canvas gesture under way the window's handleGlobalUp changes nothing.
onEnd ==
    /\ resizing # <<>>
    /\ Idle
    /\ resizing' = <<>>
    /\ Observe("onEnd", 0, "released", Pt(0, 0), NoScene)
    /\ UNCHANGED <<blocks, edges, history, selection, canvasState, gestureVars,
                   preventOverlap, loadPending, nextId>>
    /\ UNCHANGED aiPending
    /\ Memoise(FALSE)

\* ------------------------------------------------------------ specification
\* The inputs of the gesture specification: where the pointer goes down and up,
\* where it moves to, the mouse buttons, and what the user picks.
DownPoints == {Pt(500, 500), Pt(0, 500)}
MovePoints == {Pt(500, 500), Pt(500, 200)}
GrabPoint == Pt(500, 500)
Buttons == {0, 2}
ToolbarTypes == {"text"}
BlockParts == {"input", "dragHandle", "body"}
HandleInputs == {"right", "left"}
StoredWorkspaces == {NULL, StoredChain}

DownEvents == {MouseEvent(p, b) : p \in DownPoints, b \in Buttons}
                  \cup {TouchEvent(<<GrabPoint>>, GrabPoint)}
\* A pointer-down on a block's header or on a connection handle.
GrabEvents == {MouseEvent(GrabPoint, 0)}
MoveEvents == {MouseEvent(p, 0) : p \in MovePoints}
                  \cup {TouchEvent(<<GrabPoint>>, GrabPoint)}
\* A touchend lists the touches that remain: none when the only finger lifts.
UpEvents == {MouseEvent(p, 0) : p \in DownPoints}
                \cup {TouchEvent(<<>>, GrabPoint)}

\* One more event, while the run is within its bound.
Tick == events < MaxEvents /\ events' = events + 1 /\ UNCHANGED autosaveVars

Next ==
    \/ Tick /\ \E data \in StoredWorkspaces : initData(data)
    \/ Tick /\ \E type \in ToolbarTypes : addBlock(type)
    \/ Tick /\ handleUndo
    \/ Tick /\ \E id \in BlockIds(blocks) : deleteBlock(id)
    \/ Tick /\ \E id \in RenderedEdgeIds : deleteEdge(id)
    \/ Tick /\ \E id \in BlockIds(blocks) : duplicateBlock(id)
    \/ Tick /\ \E e \in DownEvents : handleCanvasDown(e, TRUE)
    \/ Tick /\ \E e \in GrabEvents, id \in BlockIds(blocks), part \in BlockParts :
                  handleBlockDown(e, id, part)
    \/ Tick /\ \E e \in GrabEvents, id \in BlockIds(blocks), h \in HandleInputs :
                  handleConnectStart(id, h, e)
    \/ Tick /\ \E id \in BlockIds(blocks), h \in HandleInputs : handleConnectEnd(id, h)
    \/ Tick /\ \E e \in MoveEvents : handleGlobalMove(e)
    \/ Tick /\ \E e \in UpEvents : handleGlobalUp(e)

Spec == Init /\ [][Next]_vars

\* The history specification: the toolbar's add and undo buttons alone, from the
\* empty scene, for as many additions as it takes to fill the history stack.
NextHistory ==
    \/ nextId < FirstFreshId + MaxPushes /\ addBlock("text") /\ UNCHANGED <<events, autosaveVars>>
    \/ handleUndo /\ UNCHANGED <<events, autosaveVars>>

SpecHistory == Init /\ [][NextHistory]_vars

\* The AI specification: the toolbar's prompt, the arrival of the generated
\* block, and what the user can do to the scene meanwhile.
Prompts == {[topic |-> "none", count |-> -1], [topic |-> "todo", count |-> 2]}

NextAi ==
    \/ Tick /\ \E data \in StoredWorkspaces : initData(data)
    \/ Tick /\ \E prompt \in Prompts : handleAiSubmit(prompt)
    \/ Tick /\ handleAiSubmitResumed
    \/ Tick /\ \E type \in ToolbarTypes : addBlock(type)
    \/ Tick /\ \E id \in BlockIds(blocks) : deleteBlock(id)
    \/ Tick /\ handleUndo

SpecAi == Init /\ [][NextAi]_vars

\* The store specification: the scene operations called with any id, updates
\* and import file, on the empty scene or the stored one.
StoreIds == {1, 4, 9}
Updates == {[x |-> 40, y |-> 60], [title |-> <<"Plan">>, category |-> "study"]}
ImportBlocks == <<[StoredB EXCEPT !.id = 7]>>
ImportEdges == <<[StoredEdge EXCEPT !.id = 8, !.fromId = 2, !.toId = 1]>>
ImportFiles == {NULL, [version |-> 1], [blocks |-> ImportBlocks], [edges |-> ImportEdges],
                [blocks |-> ImportBlocks, edges |-> <<>>]}

TickStore == events < MaxStoreOps /\ events' = events + 1 /\ UNCHANGED autosaveVars

NextStore ==
    \/ TickStore /\ \E data \in StoredWorkspaces : initData(data)
    \/ TickStore /\ \E type \in ToolbarTypes : addBlock(type)
    \/ TickStore /\ \E id \in StoreIds : deleteBlock(id)
    \/ TickStore /\ \E id \in StoreIds : deleteEdge(id)
    \/ TickStore /\ \E id \in StoreIds, updates \in Updates : updateBlock(id, updates)
    \/ TickStore /\ \E parsed \in ImportFiles : handleImport(parsed)
    \/ TickStore /\ handleUndo

SpecStore == Init /\ [][NextStore]_vars

\* The viewport specification: wheel events with any delta at any anchor, and
\* the pan gesture, which moves the pan between them.
WheelDeltas == {-9000, -1000, 100, 500, 1000, 3000}
WheelAnchors == {Pt(400, 304), Pt(736, 96)}
WheelEvents == {WheelEvent(p, dy) : p \in WheelAnchors, dy \in WheelDeltas}
\* World points to draw and to find again.
WorldPoints == {Pt(0, 0), Pt(216, -336), Pt(-1000, 80)}

TickViewport == events < MaxViewportEvents /\ events' = events + 1 /\ UNCHANGED autosaveVars

NextViewport ==
    \/ TickViewport /\ \E e \in WheelEvents : handleWheel(e)
    \/ TickViewport /\ \E e \in GrabEvents : handleCanvasDown(e, TRUE)
    \/ TickViewport /\ \E e \in MoveEvents : handleGlobalMove(e)
    \/ TickViewport /\ \E e \in UpEvents : handleGlobalUp(e)

SpecViewport == Init /\ [][NextViewport]_vars

\* The toolbar specification: the add buttons of every block type and undo, on
\* a viewport that wheel events zoom and move.
NextToolbar ==
    \/ TickViewport /\ \E e \in WheelEvents : handleWheel(e)
    \/ TickViewport /\ \E type \in BlockTypes : addBlock(type)
    \/ TickViewport /\ handleUndo

SpecToolbar == Init /\ [][NextToolbar]_vars

\* The drag specification: one mouse drags the block C of a stored workspace by
\* its header, with overlap prevention on or off.  The workspaces hold two blocks
\* of 100 x 100 joined by an edge with any pair of handles, or by two edges.
SmallA == [StoredA EXCEPT !.w = 100, !.h = 100]
SmallB == [StoredA EXCEPT !.id = 2, !.x = 300, !.w = 100, !.h = 100]
DraggedC == [StoredA EXCEPT !.id = 3, !.x = 150, !.y = 450, !.w = 100, !.h = 100]
\* The same two blocks, lower on the canvas.
LowA == [SmallA EXCEPT !.y = 200]
LowB == [SmallB EXCEPT !.y = 200]

HandleEdge(h1, h2) == [StoredEdge EXCEPT !.fromHandle = h1, !.toHandle = h2]
StraightScene == Scene(<<SmallA, SmallB, DraggedC>>, <<HandleEdge("right", "left")>>)
HandleScene(h1, h2) == Scene(<<LowA, LowB, DraggedC>>, <<HandleEdge(h1, h2)>>)
\* The id of a second stored edge, which no uuidv4() of a run comes to.
SecondEdgeId == 20
TwoEdgeScene ==
    Scene(<<LowA, LowB, DraggedC>>,
          <<HandleEdge("right", "left"),
            [HandleEdge("bottom", "bottom") EXCEPT !.id = SecondEdgeId]>>)
DragWorkspaces ==
    {StraightScene, TwoEdgeScene} \cup {HandleScene(h1, h2) : h1, h2 \in HandleTypes}

\* The pointer goes down on C's header and moves to these points.
GrabC == Pt(200, 460)
DragButtons == {0, 2}
DragMoves ==
    {Pt(200, 10), Pt(215, 30), Pt(200, 210), Pt(375, 185), Pt(328, 235), Pt(60, 110)}

TickDrag == events < MaxDragEvents /\ events' = events + 1 /\ UNCHANGED autosaveVars

NextDrag ==
    \/ TickDrag /\ \E data \in DragWorkspaces : initData(data)
    \/ TickDrag /\ \E v \in BOOLEAN : setPreventOverlap(v)
    \/ TickDrag /\ \E b \in DragButtons :
                      handleBlockDown(MouseEvent(GrabC, b), DraggedC.id, "dragHandle")
    \/ TickDrag /\ \E p \in DragMoves : handleGlobalMove(MouseEvent(p, 0))
    \/ TickDrag /\ handleGlobalUp(MouseEvent(GrabC, 0))

SpecDrag == Init /\ [][NextDrag]_vars

\* The resize specification: a stored workspace, a block selected by a press on
\* its body, the wheel, and the corner handles of the selected block dragged by
\* a mouse or a finger.
ResizeWorkspaces == {StoredChain, StraightScene}
ResizeWheels == {WheelEvent(Pt(400, 304), dy) : dy \in {-1000, 3000}}
ResizeGrab == Pt(400, 300)
ResizeMoves == {Pt(0, 0), Pt(380, 310), Pt(800, 600)}
ResizeMoveEvents == {MouseEvent(p, 0) : p \in ResizeMoves}
                        \cup {TouchEvent(<<p>>, p) : p \in ResizeMoves}

TickResize == events < MaxResizeEvents /\ events' = events + 1 /\ UNCHANGED autosaveVars

NextResize ==
    \/ TickResize /\ \E data \in ResizeWorkspaces : initData(data)
    \/ TickResize /\ \E id \in BlockIds(blocks) :
                        handleBlockDown(MouseEvent(GrabPoint, 0), id, "body")
    \/ TickResize /\ \E e \in ResizeWheels : handleWheel(e)
    \/ TickResize /\ \E id \in BlockIds(blocks), direction \in ResizeDirections :
                        handleResizeStart(MouseEvent(ResizeGrab, 0), id, direction)
    \/ TickResize /\ \E e \in ResizeMoveEvents : onMove(e)
    \/ TickResize /\ onEnd

SpecResize == Init /\ [][NextResize]_vars

\* ------------------------------------------------------------------- claims
\* C1: after deleteBlock(id) the block id is gone and no surviving edge has
\* fromId = id or toId = id; the block and its edges go in the same step, so no
\* state between two events has the block removed and an incident edge left.
DeleteBlockCascades ==
    lastEvent.op = "deleteBlock" =>
        /\ lastEvent.arg \notin BlockIds(blocks)
        /\ \A i \in 1..Len(edges) :
              edges[i].fromId # lastEvent.arg /\ edges[i].toId # lastEvent.arg

\* A block with incident edges has just been deleted.
DeletedBlockHadEdges == lastEvent.op = "deleteBlock" /\ lastEvent.effect = "cascade"

\* C2: the history stack never holds more than 10 snapshots (so that after more
\* than 10 pushes exactly 10 undos restore a snapshot and the 11th finds the
\* stack empty).
HistoryAtMostTen == Len(history) <= HistoryKeep

\* C3: after addBlock, duplicateBlock, deleteBlock, deleteEdge or the completion
\* of a connection, an undo that follows immediately leaves blocks and edges
\* equal, as JSON values, to what they were immediately before the operation.
UndoRestoresOperation ==
    before.of = "undone op" =>
        JsonStringify(Scene(blocks, edges)) = JsonStringify(before.scene)

\* An undo has just reverted an operation on a scene that had blocks and edges.
UndoneOnScene ==
    /\ before.of = "undone op"
    /\ lastEvent.effect = "restored"
    /\ before.scene.blocks # <<>>
    /\ before.scene.edges # <<>>

\* C4: a complete block drag (pointer-down on the drag handle, moves, release) is
\* reverted by a single undo: after the undo, blocks and edges are what they
\* were before the pointer-down, also when the release spliced the block into
\* the highlighted edge.
UndoRevertsDrag ==
    before.of = "undone drag" =>
        JsonStringify(Scene(blocks, edges)) = JsonStringify(before.scene)

\* C5: releasing the dragged block C while an edge e = A->B, A and B other than
\* C, is highlighted removes e and appends exactly A->C and C->B: no edge keeps
\* e's id, the number of blocks is unchanged, the number of edges grows by one,
\* and every other edge is unchanged.
InsertionIsExact ==
    [][LET C == draggingBlock.id
           k == EdgeIdx(edges, highlightedEdgeId)
           e == edges[k]
           rest == removeEdge(edges, e.id)
           n == Len(rest)
       IN (/\ lastEvent'.op = "handleGlobalUp"
           /\ draggingBlock # NULL
           /\ highlightedEdgeId # NoId
           /\ k # 0
           /\ e.fromId # C
           /\ e.toId # C
           /\ {C, e.fromId, e.toId} \subseteq BlockIds(blocks))
          => /\ e.id \notin EdgeIds(edges')
             /\ Len(blocks') = Len(blocks)
             /\ Len(edges') = Len(edges) + 1
             /\ SubSeq(edges', 1, n) = rest
             /\ edges'[n + 1].fromId = e.fromId /\ edges'[n + 1].toId = C
             /\ edges'[n + 2].fromId = C /\ edges'[n + 2].toId = e.toId]_vars

\* C6: in every state reached from the empty scene through the core operations
\* alone (the stored workspace has not been loaded), undo during a drag or a
\* connect session included, every edge's fromId and toId are ids of blocks of
\* the scene.
EdgesJoinLiveBlocks ==
    loadPending =>
        \A i \in 1..Len(edges) :
            edges[i].fromId \in BlockIds(blocks) /\ edges[i].toId \in BlockIds(blocks)

\* C7: in every reachable state no edge is a self-loop.
NoSelfLoop == \A i \in 1..Len(edges) : edges[i].fromId # edges[i].toId

\* C8: at most one of the sessions panning, dragging-block and connecting is
\* active in any reachable state.
OneSessionAtMost ==
    /\ ~(isPanning /\ draggingBlock # NULL)
    /\ ~(isPanning /\ connecting # NULL)
    /\ ~(draggingBlock # NULL /\ connecting # NULL)

\* C9: once a pointer-up or touch-end has been handled, by the window's listener
\* or by a connection handle, the engine is idle and no edge is highlighted.
IdleAfterRelease ==
    lastEvent.op \in {"handleGlobalUp", "handleConnectEnd"} =>
        Idle /\ highlightedEdgeId = NoId

\* C10: a tap on the canvas background (pointer-down, then release at the same
\* place with no move), by mouse or by touch, appends exactly one text block of
\* 240x120 whose center is the world point (release - pan) / scale.
TapCreatesCenteredBlock ==
    [][(/\ lastEvent'.op = "handleGlobalUp"
        /\ isPanning
        /\ ~hasMoved
        /\ lastMousePos = lastEvent'.at)
       => LET b == blocks'[Len(blocks')]
              world == ToWorld(lastEvent'.at, canvasState)
          IN /\ Len(blocks') = Len(blocks) + 1
             /\ b.type = "text"
             /\ b.w = DefaultW
             /\ b.h = DefaultH
             /\ b.x + b.w \div 2 = world.x
             /\ b.y + b.h \div 2 = world.y]_vars

\* C11: when the release (the window's mouseup / touchend) directly follows the
\* pointer-down on the canvas background, no pointer-move having been handled in
\* between, the release creates exactly one block, a text block with a fresh id.
ReleaseAfterDownCreatesBlock ==
    before.of = "tap" =>
        /\ lastEvent.op = "handleGlobalUp"
        /\ Len(blocks) = Len(before.scene.blocks) + 1
        /\ blocks[Len(blocks)].type = "text"
        /\ blocks[Len(blocks)].id \notin BlockIds(before.scene.blocks)

\* C11, reached: such a release, at the very position of the pointer-down.
TapReleasedInPlace ==
    /\ before.of = "tap"
    /\ lastEvent.at = startMousePos
    /\ lastEvent.at # Pt(0, 0)

\* C11 as stated: whatever happened in between, a release that ends a pan session
\* at the position of its pointer-down creates a block.
ReleaseAtDownPositionCreatesBlock ==
    (lastEvent.op = "handleGlobalUp" /\ lastEvent.at # Pt(0, 0)
        /\ lastEvent.at = startMousePos)
        => lastEvent.effect \in {"tap", "tap+insert"}

\* C12: when the pointer has moved by at least 1 unit since the pointer-down on
\* the canvas background, the release that ends the pan creates no block and
\* pushes no history snapshot.
MovedReleaseCreatesNothing ==
    [][(isPanning /\ lastMousePos # startMousePos /\ lastEvent'.op = "handleGlobalUp")
           => (Len(blocks') = Len(blocks) /\ history' = history)]_vars

\* C13: a connect gesture released on a handle of a block other than its origin
\* pushes one history snapshot and appends one edge from the origin block and
\* handle to the target block and handle; released on a handle of the origin
\* block, or over empty space (the window's listener), it leaves blocks, edges
\* and history unchanged.
ConnectReleaseSettles ==
    [][(connecting # NULL /\ lastEvent'.op \in {"handleConnectEnd", "handleGlobalUp"})
           => IF lastEvent'.op = "handleConnectEnd" /\ lastEvent'.effect = "connected"
              THEN /\ blocks' = blocks
                   /\ history' = pushHistory(history, Scene(blocks, edges))
                   /\ Len(edges') = Len(edges) + 1
                   /\ SubSeq(edges', 1, Len(edges)) = edges
                   /\ LET edge == edges'[Len(edges')]
                      IN /\ edge.id \notin EdgeIds(edges)
                         /\ edge.fromId = connecting.fromId
                         /\ edge.toId = lastEvent'.arg
                         /\ edge.toId # connecting.fromId
                         /\ edge.fromHandle = connecting.fromHandle
                         /\ edge.toHandle \in HandleTypes
              ELSE UNCHANGED <<blocks, edges, history>>]_vars

\* C14: one undo right after the arrival of an AI block leaves blocks and edges
\* equal, as JSON values, to the scene as it was immediately before the block
\* was appended: it removes the AI block alone and keeps what the user did to
\* the scene while the generation was pending (here: on a scene the user built,
\* the stored workspace not having arrived).
AiUndoRemovesOnlyAiBlock ==
    (loadPending /\ before.of = "undone ai") =>
        JsonStringify(Scene(blocks, edges)) = JsonStringify(before.scene)

\* C15: deleteBlock(id) with an id no block has, and deleteEdge(id) with an id no
\* edge has, change nothing: blocks, edges and the history stack stay as they are.
DeleteOfMissingIdIsNoOp ==
    [][(\/ lastEvent'.op = "deleteBlock" /\ lastEvent'.arg \notin BlockIds(blocks)
        \/ lastEvent'.op = "deleteEdge" /\ lastEvent'.arg \notin EdgeIds(edges))
           => UNCHANGED <<blocks, edges, history>>]_vars

\* C16: updateBlock(id, updates) gives every block whose id is id the fields of
\* updates and leaves its other fields, the other blocks, the edges and the
\* history stack as they were; when no block has the id, nothing changes.
UpdateBlockMerges ==
    before.of = "update" =>
        /\ edges = before.scene.edges
        /\ history = before.history
        /\ Len(blocks) = Len(before.scene.blocks)
        /\ \A i \in 1..Len(blocks) :
              LET old == before.scene.blocks[i]
              IN IF old.id = lastEvent.arg
                 THEN /\ DOMAIN blocks[i] = DOMAIN old \cup DOMAIN before.updates
                      /\ \A f \in DOMAIN blocks[i] :
                            blocks[i][f] = IF f \in DOMAIN before.updates
                                           THEN before.updates[f] ELSE old[f]
                 ELSE blocks[i] = old
        /\ (lastEvent.arg \notin BlockIds(before.scene.blocks)
               => blocks = before.scene.blocks)

\* C16, reached: an update of one block of a scene that has other blocks, edges
\* and history, which changed that block.
UpdatedOneOfSeveral ==
    /\ before.of = "update"
    /\ lastEvent.effect = "merged"
    /\ Len(blocks) > 1
    /\ edges # <<>>
    /\ history # <<>>
    /\ blocks # before.scene.blocks

\* C17: an import of data that lacks the blocks array or the edges array changes
\* neither the blocks nor the edges of the scene.
PartialImportRejected ==
    [][(lastEvent'.op = "handleImport" /\ lastEvent'.effect # "blocks+edges")
           => UNCHANGED <<blocks, edges>>]_vars

\* q is p up to the rounding of the arithmetic: the two world coordinates differ
\* by no more than half a screen unit at that scale and one world unit.
Near(q, p, scale) ==
    /\ 2 * Abs(q.x - p.x) * scale.n <= scale.d + 2 * scale.n
    /\ 2 * Abs(q.y - p.y) * scale.n <= scale.d + 2 * scale.n

\* C18: in every state 0.1 <= scale <= 5, whatever the wheel deltas were (those
\* with scale * (1 + delta) <= 0 included), and the pan a wheel event leaves is
\* anchor - (anchor - pan) * (clamped new scale / old scale).
ScaleStaysClamped ==
    /\ canvasState.scale.n * MinScale.d >= canvasState.scale.d * MinScale.n
    /\ canvasState.scale.n <= MaxScale * canvasState.scale.d
    /\ before.of = "wheel" =>
           canvasState.pan =
               Pt(zoomedPan(lastEvent.at.x, before.canvasState.pan.x,
                            canvasState.scale, before.canvasState.scale),
                  zoomedPan(lastEvent.at.y, before.canvasState.pan.y,
                            canvasState.scale, before.canvasState.scale))

\* C18, reached: a wheel event whose delta makes scale * (1 + delta) zero or
\* negative, on a panned viewport, has left the scale at 0.1.
WheelBelowZero ==
    /\ before.of = "wheel"
    /\ lastEvent.arg >= WheelUnits
    /\ lastEvent.effect = "clamped"
    /\ canvasState.scale = MinScale
    /\ before.canvasState.pan # Pt(0, 0)

\* C19: after a wheel event at the anchor a, the world point under a is, up to
\* the rounding of the arithmetic, the world point that was under a before the
\* event, also when the new scale was clamped at 0.1 or at 5.
AnchorStaysPut ==
    before.of = "wheel" =>
        Near(ToWorld(lastEvent.at, canvasState), ToWorld(lastEvent.at, before.canvasState),
             canvasState.scale)

\* C19, reached: a wheel event on a panned viewport whose new scale was clamped.
WheelClampedOffOrigin ==
    /\ before.of = "wheel"
    /\ lastEvent.effect = "clamped"
    /\ before.canvasState.pan # Pt(0, 0)
    /\ lastEvent.at # before.canvasState.pan
    /\ canvasState.scale # before.canvasState.scale

\* C19 as stated: the two world points are equal.
AnchorStaysExactly ==
    before.of = "wheel" =>
        ToWorld(lastEvent.at, canvasState) = ToWorld(lastEvent.at, before.canvasState)

\* C20: at every scale and pan the viewport takes, a world point converted to
\* the screen and back is, up to the rounding of the arithmetic, itself.
RoundTripNear ==
    \A p \in WorldPoints :
        Near(ToWorld(ToScreen(p, canvasState), canvasState), p, canvasState.scale)

\* C20, reached: a zoomed and panned viewport, on which the points come back.
RoundTripZoomedAndPanned ==
    /\ canvasState.scale # [n |-> INITIAL_ZOOM, d |-> 1]
    /\ canvasState.pan.x # 0
    /\ canvasState.pan.y # 0
    /\ \A p \in WorldPoints : ToWorld(ToScreen(p, canvasState), canvasState) = p

\* C20 as stated: the point that comes back equals the point.
RoundTripExact ==
    \A p \in WorldPoints : ToWorld(ToScreen(p, canvasState), canvasState) = p

\* The world point at the center of the window, (-pan + inner / 2) / scale.
ViewCenter ==
    Pt(DivR((InnerWidth - 2 * canvasState.pan.x) * canvasState.scale.d,
            2 * canvasState.scale.n),
       DivR((InnerHeight - 2 * canvasState.pan.y) * canvasState.scale.d,
            2 * canvasState.scale.n))

\* C21: the block the toolbar's addBlock(type) appends has its center
\* (x + w / 2, y + h / 2) at the world point at the center of the viewport, for
\* every block type and every viewport.
AddedBlockIsCentered ==
    lastEvent.op = "addBlock" =>
        LET b == blocks[Len(blocks)]
        IN /\ b.type = lastEvent.effect
           /\ b.x + b.w \div 2 = ViewCenter.x
           /\ b.y + b.h \div 2 = ViewCenter.y

\* C22: a block drag, the only session under way, pushes its one history
\* snapshot at the pointer-down on the drag handle: no move event and no release
\* of the drag changes the history stack.
DragPushesOnlyAtDown ==
    [][(/\ draggingBlock # NULL
        /\ ~isPanning
        /\ connecting = NULL
        /\ lastEvent'.op \in {"handleGlobalMove", "handleGlobalUp"})
           => history' = history]_vars

\* C23: an undo with an empty history stack changes nothing; an undo with a
\* non-empty stack replaces blocks and edges by the most recent snapshot and
\* removes exactly that snapshot from the stack; nothing else is recorded.
UndoPopsLastSnapshot ==
    [][lastEvent'.op = "handleUndo" =>
          /\ IF history = <<>>
             THEN /\ blocks' = blocks
                  /\ edges' = edges
                  /\ history' = history
             ELSE /\ blocks' = history[Len(history)].blocks
                  /\ edges' = history[Len(history)].edges
                  /\ Len(history') = Len(history) - 1
                  /\ history' = SubSeq(history, 1, Len(history) - 1)
          /\ UNCHANGED <<selection, canvasState, gestureVars, preventOverlap, nextId>>]_vars

UndoLeftOlderSnapshots ==
    /\ lastEvent.op = "handleUndo"
    /\ lastEvent.effect = "restored"
    /\ Len(history) >= 1
    /\ history[Len(history)].blocks # blocks

\* The center of the block id, in world coordinates.
CenterOf(bs, id) ==
    LET b == bs[BlockIdx(bs, id)] IN Pt(b.x + b.w \div 2, b.y + b.h \div 2)

\* The 51 points getClosestPointOnBezier samples on the curve from A's right
\* handle (100, 50) to B's left handle (300, 50).
StraightSamples ==
    LET p1 == Pt(100, 50)
        p2 == Pt(300, 50)
        cps == getControlPoints(p1, p2, "right", "left")
    IN {getPointOnBezier(i, ClosestSteps, p1, cps.cp1, cps.cp2, p2) : i \in 0..ClosestSteps}

\* C24: with A(0,0,100,100) and B(300,0,100,100) joined by the edge from A's
\* right handle to B's left handle, releasing a drag of the third block C whose
\* center is near (200,50) leaves exactly the edges A->C and C->B, and C's
\* center is then one of the 51 sampled points of the original curve.
StraightInsertion ==
    [][(/\ lastEvent'.op = "handleGlobalUp"
        /\ draggingBlock # NULL
        /\ draggingBlock.id = DraggedC.id
        /\ Len(blocks) = 3
        /\ blocks[1] = SmallA
        /\ blocks[2] = SmallB
        /\ blocks[3].id = DraggedC.id
        /\ edges = <<HandleEdge("right", "left")>>
        /\ distance2(CenterOf(blocks, DraggedC.id), Pt(200, 50)) < NearDrag * NearDrag)
       => /\ Len(edges') = 2
          /\ edges'[1].fromId = SmallA.id /\ edges'[1].toId = DraggedC.id
          /\ edges'[2].fromId = DraggedC.id /\ edges'[2].toId = SmallB.id
          /\ CenterOf(blocks', DraggedC.id) \in StraightSamples]_vars

\* C, dropped off the curve near (200,50), has been snapped onto it.
StraightInserted ==
    /\ lastEvent.op = "handleGlobalUp"
    /\ lastEvent.effect = "insert"
    /\ Len(blocks) = 3
    /\ blocks[1] = SmallA
    /\ blocks[2] = SmallB
    /\ Len(edges) = 2
    /\ CenterOf(blocks, DraggedC.id) \in StraightSamples \ {Pt(200, 50)}

\* C25: after a resize move, from any corner, with any pointer delta and any
\* scale, every block whose corner is held has w >= 150 and h >= 100.
ResizeKeepsMinimum ==
    lastEvent.op = "onMove" =>
        \A k \in 1..Len(resizing), i \in 1..Len(blocks) :
            blocks[i].id = resizing[k].id => blocks[i].w >= MinW /\ blocks[i].h >= MinH

\* A zoomed resize move from the north-west corner has stopped at the minimum
\* size, in a block that was stored smaller than the minimum.
ResizeClampedNorthWest ==
    /\ lastEvent.op = "onMove"
    /\ \E k \in 1..Len(resizing) :
          /\ resizing[k].direction = "nw"
          /\ resizing[k].startW < MinW
          /\ resizing[k].scale # [n |-> 1, d |-> 1]
          /\ \E i \in 1..Len(blocks) :
                /\ blocks[i].id = resizing[k].id
                /\ blocks[i].w = MinW
                /\ blocks[i].h = MinH

\* C26: a pointer-down with a non-primary mouse button, on the canvas background,
\* on a block's drag handle or on a connection handle, starts no gesture session
\* and pushes no history snapshot.
SessionsNeedPrimaryButton ==
    [][(/\ lastEvent'.op \in {"handleCanvasDown", "handleBlockDown", "handleConnectStart"}
        /\ lastEvent'.arg # 0)
          => UNCHANGED <<isPanning, draggingBlock, connecting, history>>]_vars

\* The square of the distance from the point c to the edge, over the points
\* isPointNearBezier samples on the edge's curve.
EdgeDistance2(edge, c, bs) ==
    LET p1 == getHandlePosition(edge.fromId, edge.fromHandle, bs)
        p2 == getHandlePosition(edge.toId, edge.toHandle, bs)
        cps == getControlPoints(p1, p2, edge.fromHandle, edge.toHandle)
        ds == {distance2(c, getPointOnBezier(i, NearSamples, p1, cps.cp1, cps.cp2, p2)) :
                   i \in 0..NearSamples}
    IN CHOOSE d \in ds : \A o \in ds : d <= o

\* C27: a drag move highlights the edge nearest to the dragged block's center
\* among the edges that do not touch the dragged block and pass within 40 units
\* of the center (the first of them in array order when distances tie), and
\* clears the highlight when there is no such edge.
HighlightIsNearestEdge ==
    [][(/\ lastEvent'.op = "handleGlobalMove"
        /\ draggingBlock # NULL
        /\ draggingBlock.id \in BlockIds(blocks))
          => LET c == CenterOf(blocks', draggingBlock.id)
                 cand == {k \in 1..Len(edges) :
                             /\ edges[k].fromId # draggingBlock.id
                             /\ edges[k].toId # draggingBlock.id
                             /\ {edges[k].fromId, edges[k].toId} \subseteq BlockIds(blocks)
                             /\ EdgeDistance2(edges[k], c, blocks) < NearDrag * NearDrag}
                 best == {k \in cand :
                             \A j \in cand :
                                 LET dk == EdgeDistance2(edges[k], c, blocks)
                                     dj == EdgeDistance2(edges[j], c, blocks)
                                 IN dk < dj \/ (dk = dj /\ k <= j)}
             IN highlightedEdgeId' = IF cand = {} THEN NoId
                                     ELSE edges[CHOOSE k \in best : TRUE].id]_vars

\* C27 (amended): a drag move highlights the first edge, in array order, among
\* the edges that do not touch the dragged block and pass within 40 units of its
\* center, whether or not a later edge is nearer, and clears the highlight when
\* there is no such edge.
HighlightIsFirstNearEdge ==
    [][(/\ lastEvent'.op = "handleGlobalMove"
        /\ draggingBlock # NULL
        /\ draggingBlock.id \in BlockIds(blocks))
          => LET c == CenterOf(blocks', draggingBlock.id)
                 cand == {k \in 1..Len(edges) :
                             /\ edges[k].fromId # draggingBlock.id
                             /\ edges[k].toId # draggingBlock.id
                             /\ {edges[k].fromId, edges[k].toId} \subseteq BlockIds(blocks)
                             /\ EdgeDistance2(edges[k], c, blocks) < NearDrag * NearDrag}
             IN highlightedEdgeId' = IF cand = {} THEN NoId
                                     ELSE edges[CHOOSE k \in cand : \A j \in cand : k <= j].id]_vars

\* A drag move has highlighted the first of two edges within 40 units of the
\* dragged block's center, the second being the nearer one.
FirstOfTwoNearEdges ==
    /\ lastEvent.op = "handleGlobalMove"
    /\ draggingBlock # NULL
    /\ Len(edges) = 2
    /\ highlightedEdgeId = edges[1].id
    /\ LET c == CenterOf(blocks, draggingBlock.id)
       IN /\ EdgeDistance2(edges[2], c, blocks) < EdgeDistance2(edges[1], c, blocks)
          /\ EdgeDistance2(edges[1], c, blocks) < NearDrag * NearDrag

\* The rectangle of b, put at (x, y), intersects the rectangle of the block o.
Overlaps(b, x, y, o) ==
    x < o.x + o.w /\ x + b.w > o.x /\ y < o.y + o.h /\ y + b.h > o.y

\* The block id, put at (x, y), intersects another block of bs.
OverlapsAny(bs, id, x, y) ==
    \E k \in 1..Len(bs) :
        bs[k].id # id /\ Overlaps(bs[BlockIdx(bs, id)], x, y, bs[k])

\* Where the pointer of the drag move just handled puts the dragged block,
\* before overlap prevention.
Candidate ==
    Pt(draggingBlock.initialBlockX
           + DivScale(lastEvent'.at.x - draggingBlock.startX, canvasState.scale),
       draggingBlock.initialBlockY
           + DivScale(lastEvent'.at.y - draggingBlock.startY, canvasState.scale))

\* C28: with overlap prevention on, a dragged block that intersects no other
\* block before a drag move intersects none after it: the x axis keeps its
\* pre-move value when the candidate x would intersect a block, and then the
\* y axis keeps its pre-move value when the candidate y would.
OverlapIsPrevented ==
    [][(/\ lastEvent'.op = "handleGlobalMove"
        /\ preventOverlap
        /\ draggingBlock # NULL
        /\ draggingBlock.id \in BlockIds(blocks)
        /\ LET cur == blocks[BlockIdx(blocks, draggingBlock.id)]
           IN ~OverlapsAny(blocks, cur.id, cur.x, cur.y))
          => LET id == draggingBlock.id
                 cur == blocks[BlockIdx(blocks, id)]
                 new == blocks'[BlockIdx(blocks', id)]
             IN /\ new.x = IF OverlapsAny(blocks, id, Candidate.x, cur.y)
                            THEN cur.x ELSE Candidate.x
                /\ new.y = IF OverlapsAny(blocks, id, new.x, Candidate.y)
                            THEN cur.y ELSE Candidate.y
                /\ ~OverlapsAny(blocks', id, new.x, new.y)]_vars

\* With overlap prevention on, a drag move toward another block has moved the
\* dragged block along x and kept its y.
SlidAlongBlockedAxis ==
    /\ lastEvent.op = "handleGlobalMove"
    /\ preventOverlap
    /\ draggingBlock # NULL
    /\ draggingBlock.id \in BlockIds(blocks)
    /\ LET cur == blocks[BlockIdx(blocks, draggingBlock.id)]
       IN /\ cur.x # draggingBlock.initialBlockX
          /\ cur.y = draggingBlock.initialBlockY
          /\ lastEvent.at.y # draggingBlock.startY
          /\ ~OverlapsAny(blocks, cur.id, cur.x, cur.y)

\* C29: with overlap prevention off, a drag move puts the dragged block at its
\* position at pointer-down plus (pointer - pointer at pointer-down) / scale and
\* changes nothing else: the block's other fields, the other blocks, the edges,
\* the viewport and the history stack stay as they were.
DragMoveMovesOnlyTheBlock ==
    [][(/\ lastEvent'.op = "handleGlobalMove"
        /\ ~preventOverlap
        /\ draggingBlock # NULL
        /\ draggingBlock.id \in BlockIds(blocks))
          => /\ blocks' = [j \in 1..Len(blocks) |->
                              IF blocks[j].id = draggingBlock.id
                              THEN [blocks[j] EXCEPT !.x = Candidate.x, !.y = Candidate.y]
                              ELSE blocks[j]]
             /\ UNCHANGED <<edges, canvasState, history>>]_vars

\* C30: in an edge-insertion the first new edge enters the dragged block by a
\* side and the second leaves it by the opposite side: top and bottom when both
\* handles of the original edge are top or bottom, left and right when both are
\* left or right; the first new edge keeps the original fromHandle and the
\* second the original toHandle.
InsertedHandlesAreOpposite ==
    [][(/\ lastEvent'.op = "handleGlobalUp"
        /\ lastEvent'.effect \in {"insert", "tap+insert"})
          => LET edge == edges[EdgeIdx(edges, highlightedEdgeId)]
                 n == Len(edges')
                 first == edges'[n - 1]
                 second == edges'[n]
                 vertical == {<<"top", "bottom">>, <<"bottom", "top">>}
                 horizontal == {<<"left", "right">>, <<"right", "left">>}
                 sides == <<first.toHandle, second.fromHandle>>
             IN /\ first.toId = draggingBlock.id
                /\ second.fromId = draggingBlock.id
                /\ sides \in vertical \cup horizontal
                /\ {edge.fromHandle, edge.toHandle} \subseteq {"top", "bottom"}
                       => sides \in vertical
                /\ {edge.fromHandle, edge.toHandle} \subseteq {"left", "right"}
                       => sides \in horizontal
                /\ first.fromHandle = edge.fromHandle
                /\ second.toHandle = edge.toHandle]_vars

\* A block has been inserted into an edge that left its source by the top and
\* entered its target by the bottom.
InsertedIntoVerticalEdge ==
    /\ lastEvent.op = "handleGlobalUp"
    /\ lastEvent.effect = "insert"
    /\ Len(edges) = 2
    /\ edges[1].fromHandle = "top" /\ edges[1].toHandle = "bottom"
    /\ edges[2].fromHandle = "top" /\ edges[2].toHandle = "bottom"

\* C31: a move of a pan session adds to pan the pointer's screen delta since the
\* previous move (since the pointer-down, for the first move), undivided by the
\* scale, so that pan minus the pointer position stays what it was at the
\* pointer-down; it leaves scale, blocks, edges and history unchanged.
PanMoveAddsPointerDelta ==
    [][(/\ lastEvent'.op = "handleGlobalMove"
        /\ isPanning)
          => /\ canvasState'.pan.x - lastMousePos'.x = canvasState.pan.x - lastMousePos.x
             /\ canvasState'.pan.y - lastMousePos'.y = canvasState.pan.y - lastMousePos.y
             /\ canvasState'.scale = canvasState.scale
             /\ UNCHANGED <<blocks, edges, history>>]_vars

\* C32: while no gesture session is under way (not panning, no dragged block,
\* not connecting), the window's pointer-move and pointer-up listeners change
\* nothing: viewport, blocks, edges, history and highlighted edge stay.
IdleMoveAndUpDoNothing ==
    [][(/\ Idle
        /\ lastEvent'.op \in {"handleGlobalMove", "handleGlobalUp"})
          => UNCHANGED <<canvasState, blocks, edges, history, highlightedEdgeId>>]_vars

\* A pointer-up has arrived with no session under way and no move before it, on
\* a scene with blocks and edges.
IdleUpOnScene ==
    /\ lastEvent.op = "handleGlobalUp"
    /\ lastEvent.effect = "none"
    /\ ~hasMoved
    /\ Len(blocks) > 0
    /\ Len(edges) > 0

\* C33: the window's pointer-move and pointer-up listeners are installed once:
\* no event that starts, advances or ends a gesture replaces them.  The installed
\* pointer-up listener is then, for good, the one of the render it was first
\* memoised in, and the scene it closes over (upClosure) never changes.
ListenersInstalledOnce ==
    [][lastEvent'.op \in {"handleCanvasDown", "handleBlockDown", "handleConnectStart",
                          "handleConnectEnd", "handleGlobalMove", "handleGlobalUp"}
          => upClosure' = upClosure]_vars

\* C34: with overlap prevention on, the release of a drag, also one that snaps
\* the block onto a highlighted edge, leaves the dragged block intersecting no
\* other block when it intersected none before the release.
ReleaseKeepsBlocksApart ==
    [][(/\ lastEvent'.op = "handleGlobalUp"
        /\ preventOverlap
        /\ draggingBlock # NULL
        /\ draggingBlock.id \in BlockIds(blocks)
        /\ LET cur == blocks[BlockIdx(blocks, draggingBlock.id)]
           IN ~OverlapsAny(blocks, cur.id, cur.x, cur.y))
          => LET new == blocks'[BlockIdx(blocks', draggingBlock.id)]
             IN ~OverlapsAny(blocks', new.id, new.x, new.y)]_vars

\* C35: when the result of the initial load arrives, the blocks and edges the
\* user created while it was pending are still in the scene.
LoadKeepsEarlierWork ==
    [][lastEvent'.op = "initData"
          => /\ BlockIds(blocks) \subseteq BlockIds(blocks')
             /\ EdgeIds(edges) \subseteq EdgeIds(edges')]_vars

\* C40: in every reachable state the selection is null or the id of a block
\* that is in the scene.
SelectionIsInScene == selection = NoId \/ selection \in BlockIds(blocks)

\* ------------------------------------------------------------ clear canvas
\* A faulty clear, which empties the scene and leaves the history stack.
handleClearKeepsHistory ==
    /\ blocks' = <<>>
    /\ edges' = <<>>
    /\ Observe("handleClear", 0, IF Len(history) = 0 THEN "none" ELSE "dropped history",
               Pt(0, 0), BeforeClear)
    /\ UNCHANGED <<history, selection, canvasState, gestureVars, preventOverlap, loadPending,
                   nextId>>
    /\ UNCHANGED aiPending
    /\ UNCHANGED resizing
    /\ Memoise(FALSE)

\* Sidebar: onClear, once the confirm dialog is accepted.  The sidebar's own
\* open flag, which the handler also resets, is not part of the scene.
handleClear ==
    /\ blocks' = <<>>
    /\ edges' = <<>>
    /\ history' = <<>>
    /\ Observe("handleClear", 0, IF Len(history) = 0 THEN "none" ELSE "dropped history",
               Pt(0, 0), BeforeClear)
    /\ UNCHANGED <<selection, canvasState, gestureVars, preventOverlap, loadPending, nextId>>
    /\ UNCHANGED aiPending
    /\ UNCHANGED resizing
    /\ Memoise(FALSE)

\* The clear specification: the stored or the empty scene, the toolbar's add,
\* delete and undo, and the sidebar's clear button.
NextClear ==
    \/ TickStore /\ \E data \in StoredWorkspaces : initData(data)
    \/ TickStore /\ \E type \in ToolbarTypes : addBlock(type)
    \/ TickStore /\ \E id \in BlockIds(blocks) : deleteBlock(id)
    \/ TickStore /\ handleClear
    \/ TickStore /\ handleUndo

SpecClear == Init /\ [][NextClear]_vars

\* C37: clear canvas empties blocks, edges and the history stack together, and
\* the undo that directly follows a clear changes none of them: the cleared
\* scene does not come back.
ClearThenUndoIsNoOp ==
    [][/\ (lastEvent'.op = "handleClear"
             => blocks' = <<>> /\ edges' = <<>> /\ history' = <<>>)
       /\ ((lastEvent.op = "handleClear" /\ lastEvent'.op = "handleUndo")
             => /\ UNCHANGED <<blocks, edges, history>>
                /\ blocks' = <<>> /\ edges' = <<>>)]_vars
\* An undo directly after the clear of a scene that had blocks, edges and history.
UndoAfterClearOfScene ==
    /\ lastEvent.op = "handleUndo"
    /\ before.of = "undone clear"
    /\ Len(before.scene.blocks) > 1
    /\ Len(before.scene.edges) > 0
    /\ nextId > FirstFreshId
    /\ blocks = <<>>

\* The session whose update of its block is the one that stays after a move: the
\* last one registered for that block.
LastSessionOf(id) ==
    resizing[CHOOSE k \in 1..Len(resizing) :
                 /\ resizing[k].id = id
                 /\ \A j \in (k + 1)..Len(resizing) : resizing[j].id # id]
HeldIds == {resizing[k].id : k \in 1..Len(resizing)}

\* C38: a resize move keeps the sides opposite the dragged corner where they
\* were before the move, clamped or not: from a north corner y + h, from a south
\* corner y, from a west corner x + w, from an east corner x.  The dragged corner
\* of a block is the one its last session holds.
ResizeKeepsOppositeSides ==
    [][lastEvent'.op = "onMove"
          => \A id \in HeldIds \cap BlockIds(blocks) :
                LET s == LastSessionOf(id)
                    old == blocks[BlockIdx(blocks, id)]
                    new == blocks'[BlockIdx(blocks', id)]
                IN /\ s.direction \in {"ne", "nw"} => new.y + new.h = old.y + old.h
                   /\ s.direction \in {"se", "sw"} => new.y = old.y
                   /\ s.direction \in {"nw", "sw"} => new.x + new.w = old.x + old.w
                   /\ s.direction \in {"ne", "se"} => new.x = old.x]_vars
\* A move from the north-west corner whose delta was clamped in both axes: the
\* block is at its minimum size and its north-west corner has moved.
ClampedFromNorthWest ==
    /\ lastEvent.op = "onMove"
    /\ Len(resizing) = 1
    /\ resizing[1].direction = "nw"
    /\ resizing[1].startW > MinW
    /\ resizing[1].startH > MinH
    /\ LET b == blocks[BlockIdx(blocks, resizing[1].id)]
       IN /\ b.w = MinW
          /\ b.h = MinH
          /\ b.x = resizing[1].startBlockX + resizing[1].startW - MinW
          /\ b.y = resizing[1].startBlockY + resizing[1].startH - MinH

\* ----------------------------------------------------------------- autosave
\* Runs of the autosave specification handle this many events.
MaxSaveEvents == 3

\* A faulty clearTimeout, which leaves the timeout set.
clearTimeoutForgotten(ts, id) == ts

\* clearTimeout(id): the timeout is no longer set; one that has fired is not there.
clearTimeout(ts, id) == LET Keep(t) == t.id # id IN SelectSeq(ts, Keep)

\* target.removeEventListener(type, listener): the listener that is this very
\* function is removed from the type's list.
removeEventListener(ls, listener) == LET Keep(l) == l # listener IN SelectSeq(ls, Keep)

\* Whether the handler that produced the observation ev called setBlocks or
\* setEdges: each call hands React a new array, so the [blocks, edges] effects
\* run again after the render.
SetsScene(ev) ==
    \/ ev.op \in {"addBlock", "deleteBlock", "deleteEdge", "updateBlock", "handleClear"}
    \/ ev.op = "initData" /\ ev.effect = "loaded"
    \/ ev.op = "handleUndo" /\ ev.effect = "restored"
    \/ ev.op = "handleImport" /\ ev.effect # "none"

\* useEffect(..., [blocks, edges]) after the render of a handler that set the
\* scene: the cleanup of the previous run, then the effect with the new blocks
\* and edges.  The new timeout takes the number of the event as its id.
autosaveEffect ==
    /\ saveStatus' = "saving"
    /\ timers' = Append(clearTimeout(timers, timer),
                        [id |-> events', blocks |-> blocks', edges |-> edges'])
    /\ timer' = events'
    /\ unloadListeners' = Append(removeEventListener(unloadListeners,
                                                     handleImmediateSave(timer)),
                                 handleImmediateSave(events'))
    /\ hideListeners' = Append(removeEventListener(hideListeners, handleImmediateSave(timer)),
                               HideListener(events'))
    /\ UNCHANGED <<saves, lastSaveCall>>

\* The effects that follow the render of the handler that has just run.
Effects == IF SetsScene(lastEvent') THEN autosaveEffect ELSE UNCHANGED autosaveVars

\* Everything the application holds but the autosave's own state.
appVars == <<blocks, edges, history, selection, canvasState, gestureVars, preventOverlap,
             loadPending, aiPending, resizing, nextId, events>>

\* The timeout callback, 500 ms after its effect ran, up to its await: it calls
\* saveWorkspace with the blocks and edges of the effect's render.
timerFires(i) ==
    /\ i \in 1..Len(timers)
    /\ timers' = [k \in 1..(Len(timers) - 1) |-> IF k < i THEN timers[k] ELSE timers[k + 1]]
    /\ saves' = Append(saves, [by |-> "timer",
                               scene |-> Scene(timers[i].blocks, timers[i].edges)])
    /\ lastSaveCall' = Scene(timers[i].blocks, timers[i].edges)
    /\ Observe("autosave timer", timers[i].id, "saveWorkspace", Pt(0, 0), before)
    /\ UNCHANGED <<appVars, saveStatus, timer, unloadListeners, hideListeners>>
    /\ Memoise(FALSE)

\* A saveWorkspace promise settles: the store's put succeeded, or openDB or the
\* put failed.  The timeout callback resumes and sets the status; nothing awaits
\* the call of handleImmediateSave.
saveSettles(i, ok) ==
    /\ i \in 1..Len(saves)
    /\ saves' = [k \in 1..(Len(saves) - 1) |-> IF k < i THEN saves[k] ELSE saves[k + 1]]
    /\ saveStatus' = IF saves[i].by # "timer" THEN saveStatus
                     ELSE IF ok THEN "saved" ELSE "error"
    /\ Observe("saveWorkspace", 0, IF ok THEN "resolved" ELSE "rejected", Pt(0, 0), before)
    /\ UNCHANGED <<appVars, timers, timer, lastSaveCall, unloadListeners, hideListeners>>
    /\ Memoise(FALSE)

\* The saveWorkspace calls of the visibilitychange listeners, one after the other,
\* when the document is hidden: each calls its effect's handleImmediateSave, which
\* saves blocksRef.current and edgesRef.current.
RECURSIVE ImmediateSaves(_)
ImmediateSaves(n) ==
    IF n = 0 THEN <<>>
    ELSE Append(ImmediateSaves(n - 1), [by |-> "handleImmediateSave",
                                        scene |-> Scene(blocks, edges)])

\* visibilitychange on the document, with visibilityState 'hidden'.
visibilitychange ==
    /\ saves' = saves \o ImmediateSaves(Len(hideListeners))
    /\ lastSaveCall' = IF Len(hideListeners) = 0 THEN lastSaveCall ELSE Scene(blocks, edges)
    /\ Observe("visibilitychange", Len(hideListeners), "hidden", Pt(0, 0), before)
    /\ UNCHANGED <<blocks, edges, history, selection, canvasState, gestureVars,
                   preventOverlap, loadPending, aiPending, resizing, nextId>>
    /\ UNCHANGED <<saveStatus, timers, timer, unloadListeners, hideListeners>>
    /\ Memoise(FALSE)

\* The autosave specification: the scene operations with the effect that follows
\* their render, the timeout and the settling of a save at any time between
\* them, and the tab being hidden.
TickSave == events < MaxSaveEvents /\ events' = events + 1

NextAutosave ==
    \/ TickSave /\ (\E data \in StoredWorkspaces : initData(data)) /\ Effects
    \/ TickSave /\ (\E type \in ToolbarTypes : addBlock(type)) /\ Effects
    \/ TickSave /\ (\E id \in BlockIds(blocks) : deleteBlock(id)) /\ Effects
    \/ TickSave /\ handleUndo /\ Effects
    \/ TickSave /\ handleClear /\ Effects
    \/ TickSave /\ visibilitychange
    \/ \E i \in 1..Len(timers) : timerFires(i)
    \/ \E i \in 1..Len(saves), ok \in BOOLEAN : saveSettles(i, ok)

SpecAutosave == Init /\ [][NextAutosave]_vars

\* A timeout that is set fires, and a save that was called settles.
SpecAutosaveFair ==
    /\ SpecAutosave
    /\ WF_vars(\E i \in 1..Len(timers) : timerFires(i))
    /\ WF_vars(\E i \in 1..Len(saves), ok \in BOOLEAN : saveSettles(i, ok))

\* The debounce has caught up: no timeout is set, the latest saveWorkspace call
\* was handed the blocks and edges of the scene, and the status is not 'saving'.
LatestSceneSaved ==
    /\ timers = <<>>
    /\ lastSaveCall = Scene(blocks, edges)
    /\ saveStatus \in {"saved", "error"}

\* C36: every change to blocks or edges leaves one timeout set, the new one for
\* the new scene (the pending one is cancelled); a timeout that fires saves the
\* blocks and edges the scene has at that moment, never superseded ones; and
\* once changes stop, the latest scene is eventually handed to saveWorkspace and
\* the status leaves 'saving' for 'saved' or 'error'.
AutosaveIsDebounced ==
    /\ [][/\ (SetsScene(lastEvent')
                 => timers' = <<[id |-> timer', blocks |-> blocks', edges |-> edges']>>)
           /\ (lastEvent'.op = "autosave timer"
                 => lastSaveCall' = Scene(blocks, edges))]_vars
    /\ <>[]LatestSceneSaved
\* Two changes have each cancelled the timeout before them: a third timeout is
\* the only one set, for a scene with blocks, and no save was ever called.
TimeoutsCancelled ==
    /\ SetsScene(lastEvent)
    /\ timer >= 2
    /\ Len(timers) = 1
    /\ timers[1].id = timer
    /\ Len(timers[1].blocks) > 0
    /\ lastSaveCall = NULL

\* C39: however often blocks or edges change, at most one beforeunload listener
\* and at most one visibilitychange listener of the autosave effect are
\* registered at any moment.
OneListenerOfEachKind == Len(unloadListeners) <= 1 /\ Len(hideListeners) <= 1

====
